---- MODULE Spec2Model ----
(***************************************************************************)
(* Verification model of my_fastapi_app: the rate limiters                 *)
(* (app/middleware/rate_limit.py), the middleware pipeline (app/main.py,   *)
(* app/middleware/security_headers.py), the Auth Gate (app/api/deps.py)    *)
(* and the token service (app/core/security.py).                           *)
(*                                                                         *)
(* Time: time.time() is a float; the model clock counts ticks, with        *)
(* TicksPerSecond ticks to a second, so that int() truncation and whole-   *)
(* second arithmetic are visible.                                          *)
(***************************************************************************)
EXTENDS Integers, Sequences, FiniteSets, TLC

\* ---------------------------------------------------------------- bounds
TicksPerSecond == 2
MaxQuota == 2
MaxWindow == 2
MaxTime == 7
MaxCalls == 4
MaxRTime == 4
MaxRCalls == 2
MaxRQuota == 1
MaxRWindow == 1
MaxTTime == 6
MaxTtl == 2
MaxPTime == 2
MaxReqs == 3
PipeQuota == 2
PipeWindow == 1
MaxItemOps == 3
MaxRouteOps == 4
MaxRegs == 3
\* settings.ACCESS_TOKEN_EXPIRE_MINUTES, scaled to whole seconds of the model clock
AccessTokenExpire == 1

Clients == {"ipA", "ipB"}
Tasks == {"t1", "t2"}
\* window identifiers int(now // window) the bounded clock can produce
WindowIds == 0..(MaxTime \div TicksPerSecond)
RKeys == Clients \X WindowIds
Usernames == {"alice"}

VARIABLES
    clock,      \* wall clock in ticks (time.time())
    requests,   \* limiter.requests  (settings.RATE_LIMIT_REQUESTS)
    window,     \* limiter.window, seconds (settings.RATE_LIMIT_WINDOW_SECONDS)
    storage,    \* InMemoryRateLimiter._storage: client key -> deque of timestamps
    hist,       \* log of completed in-memory is_allowed calls, in call order
    rdb,        \* shared backend: counter key rl:<client>:<window_ts> -> count, expiry
    task,       \* RedisRateLimiter.is_allowed invocations in flight, per request task
    stat,       \* per counter key: completed calls, permits, backend failures seen
    ncalls,     \* number of shared-strategy calls started so far
    rlog,       \* per client and clock second: permits returned by calls whose task serves a later call
    strategy,   \* type of RateLimitMiddleware.limiter: "memory" or "redis"
    users,      \* Credential Store: username -> "absent" | "active" | "inactive"
    held,       \* the bearer token the client holds (last one issued by login)
    req,        \* the HTTP request in the pipeline and its response
    nreq,       \* number of HTTP requests received so far
    gate,       \* outcomes of the Auth Gate for the held token, see C9
    issued,     \* token service: subject and expiry instant (ticks) of the held token
    val,        \* token service: the last decode_token call and its result
    probe,      \* token service: the last decode_token call on a token that must fail
    store,      \* Resource Store: the items table, id -> row
    next_id,    \* the id the store assigns to the next inserted row
    cache,      \* Cache Layer backend: key -> value, seconds to live
    cache_up,   \* cache_service.redis is set (REDIS_URL configured and importable)
    itask,      \* ItemService calls in flight, per calling task
    nops,       \* number of ItemService and /items route calls started so far
    note,       \* per item id: bookkeeping of commits and invalidations for the claims
    lastget,    \* per item id: the last completed get_item call
    rr,         \* the last response of an /items route function
    accounts,   \* Credential Store: the Credentials created by registration
    rtask,      \* register requests in flight, per worker thread
    nregs       \* number of register requests received so far

vars == <<clock, requests, window, storage, hist, rdb, task, stat, ncalls, rlog,
          strategy, users, held, req, nreq, gate, issued, val, probe,
          store, next_id, cache, cache_up, itask, nops, note, lastget, rr,
          accounts, rtask, nregs>>
tokVars == <<issued, val, probe>>
itemVars == <<store, next_id, cache, cache_up, itask, nops, note, lastget, rr>>
pipeVars == <<strategy, users, held, req, nreq, gate, tokVars>>
memVars == <<storage, hist>>
redisVars == <<rdb, task, stat, ncalls, rlog>>
regVars == <<accounts, rtask, nregs>>

\* ------------------------------------------------ InMemoryRateLimiter
\* while q and (now - q[0]) > self.window: q.popleft()
RECURSIVE Prune(_, _, _)
Prune(q, now, w) ==
    IF q # <<>> /\ (now - Head(q)) > w * TicksPerSecond
    THEN Prune(Tail(q), now, w)
    ELSE q

\* if len(q) >= self.requests
QuotaReachedLax(q, quota) == Len(q) > quota
QuotaReached(q, quota) == Len(q) >= quota

\* int(self.window - (now - q[0])) if q else self.window
RetryAfter(q, now, w) ==
    IF q # <<>> THEN (w * TicksPerSecond - (now - Head(q))) \div TicksPerSecond
    ELSE w

\* InMemoryRateLimiter.is_allowed on one client's deque
InMemoryIsAllowedLogsAll(q0, now, quota, w) ==
    LET q == Prune(q0, now, w) IN
    IF QuotaReached(q, quota)
    THEN [allowed |-> FALSE, retry_after |-> RetryAfter(q, now, w), q |-> Append(q, now)]
    ELSE [allowed |-> TRUE, retry_after |-> 0, q |-> Append(q, now)]
InMemoryIsAllowed(q0, now, quota, w) ==
    LET q == Prune(q0, now, w) IN
    IF QuotaReached(q, quota)
    THEN [allowed |-> FALSE, retry_after |-> RetryAfter(q, now, w), q |-> q]
    ELSE [allowed |-> TRUE, retry_after |-> 0, q |-> Append(q, now)]

\* q = self._storage.get(key) ... self._storage[key] = q: one deque per client key
StorageShared(st, key, q) == [k \in DOMAIN st |-> q]
StorageWith(st, key, q) == [st EXCEPT ![key] = q]

\* ------------------------------------------------- shared backend (Redis)
NoCounter == [count |-> 0, exp |-> -1]
NoStat == [calls |-> 0, permits |-> 0, fails |-> 0, late |-> 0, exps |-> 0]
IdleTask == [pc |-> "idle", key |-> "ipA", now |-> 0, wts |-> 0, current |-> 0,
             allowed |-> FALSE, retry_after |-> 0, failed |-> FALSE]

\* a counter exists while it has a count and its expiry has not passed
Live(c, clk) == c.count > 0 /\ (c.exp = -1 \/ c.exp > clk)

\* INCR: atomic; creates the key at 1 (without expiry) when absent
RedisIncrReset(c, clk) == [count |-> 1, exp |-> -1]
RedisIncr(c, clk) ==
    IF Live(c, clk) THEN [c EXCEPT !.count = @ + 1] ELSE [count |-> 1, exp |-> -1]

\* EXPIRE key seconds: no effect on an absent key
RedisExpire(c, clk, seconds) ==
    IF Live(c, clk) THEN [c EXCEPT !.exp = clk + seconds * TicksPerSecond] ELSE NoCounter

\* TTL: -2 for an absent key, -1 for a key without expiry, else the remaining
\* time rounded to the nearest second
RedisTtl(c, clk) ==
    IF ~Live(c, clk) THEN -2
    ELSE IF c.exp = -1 THEN -1
    ELSE (2 * (c.exp - clk) + TicksPerSecond) \div (2 * TicksPerSecond)

\* int(ttl if ttl and ttl > 0 else self.window)
RetryAfterTtlRaw(ttl, w) == ttl
RetryAfterTtl(ttl, w) == IF ttl # 0 /\ ttl > 0 THEN ttl ELSE w

\* ------------------------------------------------------ token service
SecretKey == "secret"
NoSub == "-"
NoToken == [sub |-> NoSub, exp |-> 0, sig |-> "none"]
None == "None"

\* expires_delta: Optional[timedelta] = None
NoDelta == -1
\* if expires_delta: None and timedelta(0) are both falsy
Truthy(delta) == delta # NoDelta /\ delta # 0

\* create_access_token(data, expires_delta): expires_delta in seconds or
\* NoDelta; jwt.encode writes exp as whole seconds (timegm of the datetime)
ExpireAt(clk, delta) ==
    IF Truthy(delta) THEN clk + delta * TicksPerSecond
    ELSE clk + AccessTokenExpire * TicksPerSecond

create_access_token(sub, delta, clk) ==
    [sub |-> sub, exp |-> ExpireAt(clk, delta) \div TicksPerSecond, sig |-> SecretKey]

\* a string that is not three base64url segments of JSON
Malformed == [sub |-> NoSub, exp |-> 0, sig |-> "malformed"]

\* jwt.decode checks exp against the whole-second clock: expired when exp < now
ExpiredLax(exp, clk) == FALSE
Expired(exp, clk) == exp < clk \div TicksPerSecond

\* jwt.decode(token, SECRET_KEY, algorithms=[ALGORITHM]): the exception it
\* raises ("none": it returns the payload), in the order the library checks
jwt_decode(tok, clk) ==
    IF tok.sig = "malformed" THEN [err |-> "JWTError", sub |-> NoSub]
    ELSE IF tok.sig # SecretKey THEN [err |-> "JWTError", sub |-> NoSub]
    ELSE IF Expired(tok.exp, clk) THEN [err |-> "ExpiredSignatureError", sub |-> NoSub]
    ELSE [err |-> "none", sub |-> tok.sub]

\* except JWTError: the class and its subclasses
JWTErrorOnly == {"JWTError"}
JWTError == {"JWTError", "ExpiredSignatureError", "JWTClaimsError"}

\* an exception that leaves decode_token
Raised(err) ==
    CASE err = "ExpiredSignatureError" -> "raised ExpiredSignatureError"
      [] err = "JWTClaimsError" -> "raised JWTClaimsError"
      [] OTHER -> "raised JWTError"

decode_token(tok, clk) ==
    LET payload == jwt_decode(tok, clk) IN
    IF payload.err # "none"
    THEN (IF payload.err \in JWTError THEN None ELSE Raised(payload.err))
    ELSE IF payload.sub = NoSub THEN None
    ELSE payload.sub

\* ----------------------------------------------------------- responses
JsonHeader == <<"content-type", "application/json">>
NumStr(n) ==
    CASE n = 0 -> "0" [] n = 1 -> "1" [] n = 2 -> "2" [] n = 3 -> "3"
      [] n = 4 -> "4" [] n = 5 -> "5" [] OTHER -> "n"

NoResponse == [status |-> 0, detail |-> "", headers |-> <<>>, origin |-> "none"]

\* JSONResponse({"detail": "Too Many Requests"}, 429, {"Retry-After": str(retry_after)})
TooManyRequests(retry_after) ==
    [status |-> 429, detail |-> "Too Many Requests",
     headers |-> <<JsonHeader, <<"retry-after", NumStr(retry_after)>> >>, origin |-> "limiter"]

\* credentials_exception of get_current_user
CredentialsException ==
    [status |-> 401, detail |-> "Could not validate credentials",
     headers |-> <<JsonHeader, <<"www-authenticate", "Bearer">> >>, origin |-> "gate"]

\* OAuth2PasswordBearer without an Authorization header
NotAuthenticated ==
    [status |-> 401, detail |-> "Not authenticated",
     headers |-> <<JsonHeader, <<"www-authenticate", "Bearer">> >>, origin |-> "gate"]

\* HTTPException(status_code=400, detail="Inactive user")
InactiveUser ==
    [status |-> 400, detail |-> "Inactive user", headers |-> <<JsonHeader>>, origin |-> "gate"]

\* login: HTTPException(401, "Incorrect username or password")
BadLogin ==
    [status |-> 401, detail |-> "Incorrect username or password",
     headers |-> <<JsonHeader, <<"www-authenticate", "Bearer">> >>, origin |-> "handler"]

\* a value the route returns, serialised by the framework
Ok(status, extra) ==
    [status |-> status, detail |-> "", headers |-> <<JsonHeader>> \o extra, origin |-> "handler"]

\* an exception no handler is registered for: the server-error layer around
\* the whole middleware stack answers 500
ServerError ==
    [status |-> 500, detail |-> "Internal Server Error",
     headers |-> << <<"content-type", "text/plain; charset=utf-8">> >>, origin |-> "server_error"]

\* ---------------------------------------------- SecurityHeadersMiddleware
security_headers == <<
    <<"Strict-Transport-Security", "max-age=63072000; includeSubDomains; preload">>,
    <<"X-Frame-Options", "DENY">>,
    <<"X-Content-Type-Options", "nosniff">>,
    <<"Referrer-Policy", "no-referrer">>,
    <<"Permissions-Policy", "geolocation=()">>,
    <<"Content-Security-Policy", "default-src 'self'; style-src 'self' 'unsafe-inline' https://cdn.jsdelivr.net; script-src 'self' 'unsafe-inline' https://cdn.jsdelivr.net; font-src 'self' https://fonts.gstatic.com; img-src 'self' data: https://cdn.jsdelivr.net https://fastapi.tiangolo.com; connect-src 'self' https://cdn.jsdelivr.net">> >>

\* headers = dict(message.get("headers", [])): the keys, compared as bytes
HeaderKeys(hs) == {hs[i][1] : i \in 1..Len(hs)}

\* send_wrapper on an http.response.start message
send_wrapper(hs) ==
    hs \o SelectSeq(security_headers, LAMBDA kv : kv[1] \notin HeaderKeys(hs))

\* header names are case-insensitive on the wire
Lower(name) ==
    CASE name = "Strict-Transport-Security" -> "strict-transport-security"
      [] name = "X-Frame-Options" -> "x-frame-options"
      [] name = "X-Content-Type-Options" -> "x-content-type-options"
      [] name = "Referrer-Policy" -> "referrer-policy"
      [] name = "Permissions-Policy" -> "permissions-policy"
      [] name = "Content-Security-Policy" -> "content-security-policy"
      [] OTHER -> name

\* headers a route may put on its own response: none, or X-Frame-Options as a
\* framework Response stores it (lower case) or as a raw ASGI message may
HandlerHeaders == { <<>>,
                    << <<"x-frame-options", "SAMEORIGIN">> >>,
                    << <<"X-Frame-Options", "SAMEORIGIN">> >> }

\* ------------------------------------------------- Resource Store (items)
ItemIds == {1, 2}
ItemTasks == {"s1", "s2"}

\* datetime values, and what json.dumps(..., default=str) makes of them
NoDate == [type |-> "none", at |-> 0]
DateTime(at) == [type |-> "datetime", at |-> at]
Str(d) == [d EXCEPT !.type = "str"]

\* a row of the items table (models/item.py).  nulls: the nullable columns
\* holding NULL; rev counts the commits that wrote the row (bookkeeping, not
\* a column)
NoRow == [id |-> 0, name |-> "", description |-> "", price |-> 0, quantity |-> 0,
          created_at |-> NoDate, nulls |-> {}, rev |-> 0]
BaseRow == [id |-> 1, name |-> "a", description |-> "d", price |-> 1, quantity |-> 0,
            created_at |-> DateTime(0), nulls |-> {}, rev |-> 0]

\* columns declared nullable=False
NotNullable == {"name", "price"}

\* schemas/item.py ItemUpdate: the fields a request body can set
ItemUpdateWithId == {"id", "name", "description", "price", "quantity"}
ItemUpdate == {"name", "description", "price", "quantity"}

\* a PUT body: the keys it carries, those of them that are null, and values
Body(fields, nulls) ==
    [fields |-> fields, nulls |-> nulls, id |-> 9,
     name |-> "b", description |-> "e", price |-> 2, quantity |-> 5]

\* item.model_dump(exclude_unset=True): the declared fields the body set
model_dump(body) ==
    [body EXCEPT !.fields = @ \cap ItemUpdate, !.nulls = @ \cap ItemUpdate]

\* for key, value in update_data.items(): setattr(db_item, key, value)
Put(row, data, f, new) ==
    IF f \notin data.fields THEN row[f]
    ELSE IF f \in data.nulls THEN NoRow[f]
    ELSE new

ApplyReplace(row, data) ==
    [row EXCEPT !.name = data.name, !.description = data.description,
                !.price = data.price, !.quantity = data.quantity,
                !.nulls = data.nulls]
ApplyUpdate(row, data) ==
    [row EXCEPT !.id = Put(row, data, "id", data.id),
                !.name = Put(row, data, "name", data.name),
                !.description = Put(row, data, "description", data.description),
                !.price = Put(row, data, "price", data.price),
                !.quantity = Put(row, data, "quantity", data.quantity),
                !.nulls = (@ \ data.fields) \cup data.nulls]

\* db.commit() of an updated row: the store rejects NULL in a NOT NULL column
IntegrityError(row) == row.nulls \cap NotNullable # {}

\* db.query(Item).filter(Item.id == item_id).first()
QueryFirst(st, id) == st[id]

\* db.query(Item).offset(skip).limit(limit).all(), rows in id order
RECURSIVE RowsFrom(_, _)
RowsFrom(st, i) ==
    IF i \notin ItemIds THEN <<>>
    ELSE (IF st[i] = NoRow THEN <<>> ELSE <<st[i]>>) \o RowsFrom(st, i + 1)
QueryAll(st, skip, limit) ==
    LET rows == RowsFrom(st, 1)
        last == IF skip + limit < Len(rows) THEN skip + limit ELSE Len(rows) IN
    SubSeq(rows, skip + 1, last)

\* ---------------------------------------------------------- Cache Layer
ItemTtl == 600
ListTtl == 300
ListArgs == {<<0, 10>>, <<1, 10>>}
ItemKey(id) == <<"item", id, 0>>
ListKey(skip, limit) == <<"items:list", skip, limit>>
CacheKeys == {ItemKey(i) : i \in ItemIds} \cup {ListKey(a[1], a[2]) : a \in ListArgs}
\* redis.keys("items:list:*")
MatchListNone(c) == {}
MatchList(c) == {k \in CacheKeys : k[1] = "items:list" /\ c[k].ttl > 0}

NoEntry == [val |-> <<>>, ttl |-> 0]
EmptyCache == [k \in CacheKeys |-> NoEntry]

\* item.__dict__.copy() without _sa_instance_state, through json.dumps(default=str)
Snapshot(row) == [row EXCEPT !.created_at = Str(@)]
\* ItemResponse (from_attributes): created_at is parsed back to a datetime
ItemResponse(item) == [item EXCEPT !.created_at = DateTime(@.at)]

\* CacheService.get / set / delete / delete_pattern: up is self.redis, raises
\* says that the backend call raised.  Each returns the value the method
\* returns and whether an exception leaves the method.
CacheGetUnguarded(up, entry, raises) ==
    IF ~up THEN [raised |-> FALSE, val |-> <<>>]
    ELSE IF raises THEN [raised |-> TRUE, val |-> <<>>]
    ELSE [raised |-> FALSE, val |-> IF entry.ttl > 0 THEN entry.val ELSE <<>>]
CacheGet(up, entry, raises) ==
    IF ~up THEN [raised |-> FALSE, val |-> <<>>]
    ELSE IF raises THEN [raised |-> FALSE, val |-> <<>>]
    ELSE [raised |-> FALSE, val |-> IF entry.ttl > 0 THEN entry.val ELSE <<>>]

\* the backend after setex(key, expire_seconds, serialized)
CacheSetDefaultTtl(up, c, key, value, expire_seconds, raises) ==
    IF up /\ ~raises THEN [c EXCEPT ![key] = [val |-> value, ttl |-> 300]]
    ELSE c
CacheSet(up, c, key, value, expire_seconds, raises) ==
    IF up /\ ~raises THEN [c EXCEPT ![key] = [val |-> value, ttl |-> expire_seconds]]
    ELSE c

\* the backend after delete(*keys)
CacheDeleteNoop(up, c, keys, raises) == c
CacheDelete(up, c, keys, raises) ==
    IF up /\ ~raises THEN [k \in CacheKeys |-> IF k \in keys THEN NoEntry ELSE c[k]]
    ELSE c

\* ItemService call records
NoRet == [kind |-> "-", val |-> <<>>]
IdleItemTask == [pc |-> "idle", op |-> "-", no |-> 0, id |-> 1, args |-> <<0, 10>>,
                 data |-> Body({}, {}), item |-> NoRow, keys |-> {},
                 ret |-> NoRet, direct |-> NoRet, trace |-> <<>>, cok |-> 0,
                 floor |-> 0, seen |-> 0, quiet |-> FALSE, m0 |-> 0,
                 clean |-> FALSE, lost |-> FALSE,
                 prev |-> [ok |-> FALSE, m |-> 0, val |-> NoRet, cached |-> FALSE,
                           lost |-> FALSE]]
NoNote == [donerev |-> 0, lost |-> FALSE, overlap |-> FALSE, mut |-> 0]
NoLastGet == [ok |-> FALSE, m |-> 0, val |-> NoRet, cached |-> FALSE, lost |-> FALSE]
NoRouteResponse == [route |-> "-", id |-> 0, present |-> FALSE, applied |-> FALSE,
                    resp |-> NoResponse]

NoIssue == [sub |-> NoSub, expire |-> 0, delta |-> NoDelta]
NoVal == [at |-> -1, res |-> None]
NoProbe == [kind |-> "-", expired |-> FALSE, res |-> None]

IdleReq == [pc |-> "idle", route |-> "-", ip |-> "ipA", token |-> "-",
            ops |-> {}, allowed |-> FALSE, retry_after |-> 0, limfail |-> FALSE,
            authed |-> FALSE, resp |-> NoResponse]

\* ---- registration (api/v1/endpoints/auth.py)
\* worker threads of the sync route function register
RegTasks == {"r1", "r2"}
\* UserCreate.username, UserCreate.email
RegNames == {"alice", "bob"}
Emails == {"alice@example.com", "bob@example.com"}
Credential(u, e) == [username |-> u, email |-> e]
\* UserService lookups: the Credentials with that email, that username
get_user_by_email(db, e) == {c \in db : c.email = e}
get_user_by_username(db, u) == {c \in db : c.username = u}
\* username and email are unique in the Credential Store
UniqueViolation(db, u, e) ==
    get_user_by_email(db, e) # {} \/ get_user_by_username(db, u) # {}
NoRegResponse == [status |-> 0, detail |-> "-"]
IdleReg == [pc |-> "idle", username |-> "-", email |-> "-",
            had_user |-> FALSE, had_email |-> FALSE,
            resp |-> NoRegResponse, created |-> FALSE]

InitBase(quotas, windows, strategies, caches) ==
    /\ clock = 0
    /\ requests \in quotas
    /\ window \in windows
    /\ storage = [k \in Clients |-> <<>>]
    /\ hist = <<>>
    /\ rdb = [k \in RKeys |-> NoCounter]
    /\ task = [t \in Tasks |-> IdleTask]
    /\ stat = [k \in RKeys |-> NoStat]
    /\ ncalls = 0
    /\ rlog = [k \in RKeys |-> 0]
    /\ strategy \in strategies
    /\ users = [u \in Usernames |-> "absent"]
    /\ held = NoToken
    /\ req = IdleReq
    /\ nreq = 0
    /\ gate = "none"
    /\ issued = NoIssue
    /\ val = NoVal
    /\ probe = NoProbe
    /\ store = [i \in ItemIds |-> IF i = 1 THEN BaseRow ELSE NoRow]
    /\ next_id = 2
    /\ \E c \in caches : cache_up = c[1] /\ cache = c[2]
    /\ itask = [t \in ItemTasks |-> IdleItemTask]
    /\ nops = 0
    /\ note = [i \in ItemIds |-> NoNote]
    /\ lastget = [i \in ItemIds |-> NoLastGet]
    /\ rr = NoRouteResponse
    /\ accounts = {}
    /\ rtask = [t \in RegTasks |-> IdleReg]
    /\ nregs = 0

\* the limiter specifications run without a cache backend
InitWith(quotas, windows, strategies) ==
    InitBase(quotas, windows, strategies, {<<FALSE, EmptyCache>>})

\* RateLimitMiddleware.__init__: no REDIS_URL, the in-memory limiter
Init == InitWith(1..MaxQuota, 1..MaxWindow, {"memory"})
\* REDIS_URL configured, the Redis limiter
InitRedis == InitWith(1..MaxRQuota, 1..MaxRWindow, {"redis"})
\* either, as configuration decides
InitPipe == InitWith({PipeQuota}, {PipeWindow}, {"memory", "redis"})

\* one call of InMemoryRateLimiter.is_allowed(key) at the current clock
MemCall(key) ==
    /\ Len(hist) < MaxCalls
    /\ LET r == InMemoryIsAllowed(storage[key], clock, requests, window) IN
        /\ storage' = StorageWith(storage, key, r.q)
        /\ hist' = Append(hist, [key |-> key, t |-> clock,
                                 allowed |-> r.allowed, retry_after |-> r.retry_after])
    /\ UNCHANGED <<clock, requests, window, redisVars, pipeVars, itemVars, regVars>>

\* time passes
TickTo(max) ==
    /\ clock < max
    /\ clock' = clock + 1
    /\ UNCHANGED <<requests, window, memVars, redisVars, pipeVars, itemVars, regVars>>

NextMem ==
    \/ \E k \in Clients : MemCall(k)
    \/ TickTo(MaxTime)

SpecMem == Init /\ [][NextMem]_vars

\* ------------------------------------------------ RedisRateLimiter
\* redis_key = f"rl:{key}:{window_ts}"
RKeyOf(t) == <<task[t].key, task[t].wts>>

\* now = int(time.time())
Now(clk) == clk \div TicksPerSecond
\* window_ts = now // self.window
WindowTs(clk, w) == (clk \div TicksPerSecond) \div w

\* if current > self.requests
OverQuotaLax(current, quota) == current > quota + 1
OverQuota(current, quota) == current > quota

\* if current == 1
FirstIncrementOrLater(current) == current >= 1
FirstIncrement(current) == current = 1

\* is_allowed returns (allowed, retry_after); the call is over
\* (expired: the number of EXPIRE commands the backend applied in this step)
Finish(t, allowed, retry_after, failed, expired) ==
    /\ task' = [task EXCEPT ![t].pc = "done", ![t].current = 0, ![t].allowed = allowed,
                            ![t].retry_after = retry_after, ![t].failed = failed]
    /\ stat' = [stat EXCEPT ![RKeyOf(t)].calls = @ + 1,
                            ![RKeyOf(t)].permits = @ + (IF allowed THEN 1 ELSE 0),
                            ![RKeyOf(t)].fails = @ + (IF failed THEN 1 ELSE 0),
                            ![RKeyOf(t)].exps = @ + expired]

\* is_allowed entered: lines 63-65, up to the first await
RStart(t, key) ==
    /\ task[t].pc \in {"idle", "done"}
    /\ ncalls < MaxRCalls
    /\ ncalls' = ncalls + 1
    /\ rlog' = IF task[t].pc = "done" /\ task[t].allowed
               THEN [rlog EXCEPT ![<<task[t].key, task[t].now>>] = @ + 1]
               ELSE rlog
    /\ task' = [task EXCEPT ![t] =
                  [pc |-> "incr", key |-> key, now |-> Now(clock),
                   wts |-> WindowTs(clock, window), current |-> 0,
                   allowed |-> FALSE, retry_after |-> 0, failed |-> FALSE]]
    /\ UNCHANGED <<clock, requests, window, memVars, rdb, stat, pipeVars, itemVars, regVars>>

\* current = await self.redis.incr(redis_key), then the branches up to the next await
RIncr(t) ==
    /\ task[t].pc = "incr"
    /\ LET c == RedisIncr(rdb[RKeyOf(t)], clock)
           isLate == WindowTs(clock, window) # task[t].wts IN
        /\ rdb' = [rdb EXCEPT ![RKeyOf(t)] = c]
        /\ IF FirstIncrement(c.count)
           THEN /\ task' = [task EXCEPT ![t].pc = "expire", ![t].current = c.count]
                /\ stat' = [stat EXCEPT ![RKeyOf(t)].late = @ + (IF isLate THEN 1 ELSE 0)]
           ELSE IF OverQuota(c.count, requests)
           THEN /\ task' = [task EXCEPT ![t].pc = "ttl", ![t].current = c.count]
                /\ stat' = [stat EXCEPT ![RKeyOf(t)].late = @ + (IF isLate THEN 1 ELSE 0)]
           ELSE /\ task' = [task EXCEPT ![t].pc = "done",
                                        ![t].allowed = TRUE, ![t].retry_after = 0]
                /\ stat' = [stat EXCEPT ![RKeyOf(t)].calls = @ + 1,
                                        ![RKeyOf(t)].permits = @ + 1,
                                        ![RKeyOf(t)].late = @ + (IF isLate THEN 1 ELSE 0)]
    /\ UNCHANGED <<clock, requests, window, memVars, ncalls, rlog, pipeVars, itemVars, regVars>>

\* EXPIRE answers 1 when the key exists and the timeout was set
Applied(c, clk) == IF Live(c, clk) THEN 1 ELSE 0

\* await self.redis.expire(redis_key, self.window), then line 73
RExpire(t) ==
    /\ task[t].pc = "expire"
    /\ rdb' = [rdb EXCEPT ![RKeyOf(t)] = RedisExpire(@, clock, window)]
    /\ IF OverQuota(task[t].current, requests)
       THEN /\ task' = [task EXCEPT ![t].pc = "ttl"]
            /\ stat' = [stat EXCEPT ![RKeyOf(t)].exps = @ + Applied(rdb[RKeyOf(t)], clock)]
       ELSE Finish(t, TRUE, 0, FALSE, Applied(rdb[RKeyOf(t)], clock))
    /\ UNCHANGED <<clock, requests, window, memVars, ncalls, rlog, pipeVars, itemVars, regVars>>

\* ttl = await self.redis.ttl(redis_key); return False, retry_after
RTtl(t) ==
    /\ task[t].pc = "ttl"
    /\ Finish(t, FALSE, RetryAfterTtl(RedisTtl(rdb[RKeyOf(t)], clock), window), FALSE, 0)
    /\ UNCHANGED <<clock, requests, window, memVars, rdb, ncalls, rlog, pipeVars, itemVars, regVars>>

\* except Exception: return True, 0 -- a backend call raises; the command may
\* or may not have been applied by the backend before the failure
FailClosed == [allowed |-> FALSE, retry_after |-> 0]
FailOpen == [allowed |-> TRUE, retry_after |-> 0]

RFail(t) ==
    /\ task[t].pc \in {"incr", "expire", "ttl"}
    /\ \/ /\ UNCHANGED rdb
          /\ Finish(t, FailOpen.allowed, FailOpen.retry_after, TRUE, 0)
       \/ /\ task[t].pc = "incr"
          /\ rdb' = [rdb EXCEPT ![RKeyOf(t)] = RedisIncr(@, clock)]
          /\ Finish(t, FailOpen.allowed, FailOpen.retry_after, TRUE, 0)
       \/ /\ task[t].pc = "expire"
          /\ rdb' = [rdb EXCEPT ![RKeyOf(t)] = RedisExpire(@, clock, window)]
          /\ Finish(t, FailOpen.allowed, FailOpen.retry_after, TRUE,
                    Applied(rdb[RKeyOf(t)], clock))
    /\ UNCHANGED <<clock, requests, window, memVars, ncalls, rlog, pipeVars, itemVars, regVars>>

NextRedis ==
    \/ \E t \in Tasks, k \in Clients : RStart(t, k)
    \/ \E t \in Tasks : RIncr(t)
    \/ \E t \in Tasks : RExpire(t)
    \/ \E t \in Tasks : RTtl(t)
    \/ \E t \in Tasks : RFail(t)
    \/ TickTo(MaxRTime)

SpecRedis == InitRedis /\ [][NextRedis]_vars

\* -------------------------------------------------- request pipeline
\* app/main.py: TrustedHost(*) > SecurityHeadersMiddleware > RateLimitMiddleware
\* > router (dependencies, then the route function)
PipeTask == "t1"
PipeClient == "ipA"

\* routes whose function depends on get_current_active_user
ProtectedButCreate ==
    {"items_list", "items_get", "items_update", "items_delete", "auth_me", "users_profile"}
Protected ==
    {"items_create", "items_list", "items_get", "items_update", "items_delete",
     "auth_me", "users_profile"}
\* the routes of api_router the model exercises
Routes == {"items_create", "items_list", "items_get", "items_update", "items_delete",
           "auth_me", "users_profile", "auth_login"}

ForgedToken == [sub |-> "alice", exp |-> MaxPTime, sig |-> "other"]
NoSubToken == [sub |-> NoSub, exp |-> MaxPTime, sig |-> SecretKey]
TokenChoices == {NoToken, held, ForgedToken, NoSubToken}
\* which of them a request carried
TokenKind(tok) ==
    IF tok = NoToken THEN "none"
    ELSE IF tok = held THEN "held"
    ELSE IF tok = ForgedToken THEN "forged"
    ELSE "nosub"

\* a request reaches RateLimitMiddleware.__call__
Receive ==
    /\ req.pc \in {"idle", "done"}
    /\ nreq < MaxReqs
    /\ nreq' = nreq + 1
    /\ req' = [IdleReq EXCEPT !.pc = "limit", !.ip = PipeClient]
    /\ UNCHANGED <<clock, requests, window, memVars, redisVars, strategy, users, held, gate, tokVars, itemVars, regVars>>

\* if not allowed: respond 429 and return; else await self.app(...)
AfterLimiterAlways(r, allowed, retry_after) ==
    [r EXCEPT !.pc = "app"]
AfterLimiter(r, allowed, retry_after) ==
    IF allowed
    THEN [r EXCEPT !.pc = "app"]
    ELSE [r EXCEPT !.pc = "send", !.resp = TooManyRequests(retry_after)]

\* the limiter has returned (allowed, retry_after) to the middleware
Limited(r, allowed, retry_after, failed) ==
    AfterLimiter([r EXCEPT !.ops = @ \cup {"limiter"}, !.allowed = allowed,
                           !.retry_after = retry_after, !.limfail = failed],
                 allowed, retry_after)

\* allowed, retry_after = self.limiter.is_allowed(client_ip)   (in-memory, no await)
LimitMem ==
    /\ req.pc = "limit"
    /\ strategy = "memory"
    /\ LET r == InMemoryIsAllowed(storage[req.ip], clock, requests, window) IN
        /\ storage' = StorageWith(storage, req.ip, r.q)
        /\ req' = Limited(req, r.allowed, r.retry_after, FALSE)
    /\ UNCHANGED <<clock, requests, window, hist, redisVars, strategy, users, held, nreq, gate, tokVars, itemVars, regVars>>

\* allowed, retry_after = await self.limiter.is_allowed(client_ip)   (Redis): entered
LimitRedisStart ==
    /\ req.pc = "limit"
    /\ strategy = "redis"
    /\ task' = [task EXCEPT ![PipeTask] =
                  [IdleTask EXCEPT !.pc = "incr", !.key = req.ip, !.now = Now(clock),
                                   !.wts = WindowTs(clock, window)]]
    /\ req' = [req EXCEPT !.pc = "limiting"]
    /\ UNCHANGED <<clock, requests, window, memVars, rdb, stat, ncalls, rlog,
                   strategy, users, held, nreq, gate, tokVars, itemVars, regVars>>

\* ... and returned
LimitRedisDone ==
    /\ req.pc = "limiting"
    /\ task[PipeTask].pc = "done"
    /\ req' = Limited(req, task[PipeTask].allowed, task[PipeTask].retry_after,
                      task[PipeTask].failed)
    /\ task' = [task EXCEPT ![PipeTask] = IdleTask]
    /\ UNCHANGED <<clock, requests, window, memVars, rdb, stat, ncalls, rlog,
                   strategy, users, held, nreq, gate, tokVars, itemVars, regVars>>

\* get_current_user raises credentials_exception at two places
DecodeFailed == CredentialsException
LookupMissedLeaky == [CredentialsException EXCEPT !.status = 404, !.detail = "User not found"]
LookupMissed == CredentialsException

\* if not current_user.is_active
IsActiveAlways(status) == TRUE
IsActive(status) == status = "active"

\* oauth2_scheme, get_current_user, get_current_active_user on one request:
\* the response that ends the request, or NoResponse when the user is resolved
AuthGate(tok, clk, creds) ==
    IF tok = NoToken THEN [resp |-> NotAuthenticated, ops |-> {}]
    ELSE LET username == decode_token(tok, clk) IN
         IF username = None THEN [resp |-> DecodeFailed, ops |-> {"decode"}]
         ELSE IF creds[username] = "absent"
              THEN [resp |-> LookupMissed, ops |-> {"decode", "lookup"}]
         ELSE IF ~IsActive(creds[username])
              THEN [resp |-> InactiveUser, ops |-> {"decode", "lookup"}]
         ELSE [resp |-> NoResponse, ops |-> {"decode", "lookup"}]

\* what the held token has been through since it was issued to an active user
GateNext(g, tok, accepted) ==
    IF tok = NoToken \/ tok # held THEN g
    ELSE IF g = "issued" /\ ~accepted THEN "rejected"
    ELSE IF g = "rejected" /\ accepted THEN "reaccepted"
    ELSE g

\* the router matches the route and resolves its dependencies; the path and
\* the Authorization header of the request are first read here
Dependencies(route, tok) ==
    /\ req.pc = "app"
    /\ IF route \notin Protected
       THEN /\ req' = [req EXCEPT !.pc = "handler", !.route = route]
            /\ UNCHANGED gate
       ELSE LET g == AuthGate(tok, clock, users)
                r == [req EXCEPT !.route = route, !.token = TokenKind(tok),
                                 !.ops = @ \cup g.ops] IN
            /\ req' = IF g.resp = NoResponse
                      THEN [r EXCEPT !.pc = "handler", !.authed = TRUE]
                      ELSE [r EXCEPT !.pc = "send", !.resp = g.resp]
            /\ gate' = IF "lookup" \in g.ops
                       THEN GateNext(gate, tok, g.resp = NoResponse)
                       ELSE gate
    /\ UNCHANGED <<clock, requests, window, memVars, redisVars, strategy, users, held, nreq, tokVars, itemVars, regVars>>

\* the route function runs with its dependencies resolved.  The /items routes
\* are plain functions that call ItemService; create_item is a plain method,
\* get_items / get_item / update_item / delete_item are coroutine functions
\* that the route calls without awaiting: the coroutine object is returned
\* (or tested for truth) and the service body never runs.
\* UserService.authenticate_user: the Credential exists and the password verifies
authenticate_user(creds, u, pw) == creds[u] # "absent" /\ pw

RouteResult(route, extra, creds, u, pw) ==
    CASE route = "items_create" -> [resp |-> Ok(201, extra), ops |-> {"handler", "store"}]
      [] route \in {"items_list", "items_get", "items_update"} ->
            \* a coroutine object does not validate against the response model
            [resp |-> ServerError, ops |-> {"handler"}]
      [] route = "items_delete" -> [resp |-> Ok(200, extra), ops |-> {"handler"}]
      [] route \in {"auth_me", "users_profile"} -> [resp |-> Ok(200, extra), ops |-> {"handler"}]
      [] route = "auth_login" ->
            IF authenticate_user(creds, u, pw)
            THEN [resp |-> Ok(200, extra), ops |-> {"handler", "lookup"}]
            ELSE [resp |-> BadLogin, ops |-> {"handler", "lookup"}]

Handler(extra, u, pw) ==
    /\ req.pc = "handler"
    /\ LET r == RouteResult(req.route, extra, users, u, pw)
           login_ok == req.route = "auth_login" /\ r.resp.status = 200 IN
        /\ req' = [req EXCEPT !.pc = IF r.resp.origin = "server_error" THEN "done" ELSE "send",
                              !.ops = @ \cup r.ops, !.resp = r.resp]
        /\ held' = IF login_ok THEN create_access_token(u, AccessTokenExpire, clock)
                   ELSE held
        /\ gate' = IF login_ok
                   THEN (IF users[u] = "active" THEN "issued" ELSE "none")
                   ELSE gate
    /\ UNCHANGED <<clock, requests, window, memVars, redisVars, strategy, users, nreq, tokVars, itemVars, regVars>>

\* SecurityHeadersMiddleware.send_wrapper on the http.response.start message
Send ==
    /\ req.pc = "send"
    /\ req' = [req EXCEPT !.pc = "done", !.resp.headers = send_wrapper(@)]
    /\ UNCHANGED <<clock, requests, window, memVars, redisVars, strategy, users, held, nreq, gate, tokVars, itemVars, regVars>>

\* registration and administrative action on a Credential
SetCredential(u, st) ==
    /\ users[u] # st
    /\ users' = [users EXCEPT ![u] = st]
    /\ UNCHANGED <<clock, requests, window, memVars, redisVars, strategy, held, req, nreq, gate, tokVars, itemVars, regVars>>

NextPipe ==
    \/ Receive
    \/ LimitMem
    \/ LimitRedisStart
    \/ RIncr(PipeTask)
    \/ RExpire(PipeTask)
    \/ RTtl(PipeTask)
    \/ RFail(PipeTask)
    \/ LimitRedisDone
    \/ \E route \in Routes, tok \in TokenChoices : Dependencies(route, tok)
    \/ \E extra \in HandlerHeaders, u \in Usernames, pw \in BOOLEAN : Handler(extra, u, pw)
    \/ Send
    \/ \E u \in Usernames, st \in {"absent", "active", "inactive"} : SetCredential(u, st)
    \/ TickTo(MaxPTime)

SpecPipe == InitPipe /\ [][NextPipe]_vars

\* ------------------------------------------- token service on its own
Subjects == {"alice", "bob"}

\* create_access_token({"sub": sub}, timedelta(seconds=ttl)); ttl = NoDelta stands
\* for a call without expires_delta
TokIssue(sub, ttl) ==
    /\ held' = create_access_token(sub, ttl, clock)
    /\ issued' = [sub |-> sub, expire |-> ExpireAt(clock, ttl), delta |-> ttl]
    /\ val' = NoVal
    /\ probe' = NoProbe
    /\ UNCHANGED <<clock, requests, window, memVars, redisVars, strategy, users, req, nreq, gate,
                   itemVars, regVars>>

\* decode_token(token) on the held token
TokValidate ==
    /\ held # NoToken
    /\ val' = [at |-> clock, res |-> decode_token(held, clock)]
    /\ UNCHANGED <<clock, requests, window, memVars, redisVars, strategy, users, held,
                   req, nreq, gate, issued, probe, itemVars, regVars>>

\* tokens a client can present in place of the one it was issued
ProbeKinds == {"held", "forged", "malformed", "nosub"}
ProbeToken(kind) ==
    CASE kind = "held" -> held
      [] kind = "forged" -> [held EXCEPT !.sig = "other"]
      [] kind = "malformed" -> Malformed
      [] kind = "nosub" -> [held EXCEPT !.sub = NoSub]

\* decode_token(token) on one of them
TokProbe(kind) ==
    /\ held # NoToken
    /\ probe' = [kind |-> kind,
                 expired |-> ProbeToken(kind).exp * TicksPerSecond + TicksPerSecond <= clock,
                 res |-> decode_token(ProbeToken(kind), clock)]
    /\ UNCHANGED <<clock, requests, window, memVars, redisVars, strategy, users, held,
                   req, nreq, gate, issued, val, itemVars, regVars>>

NextTok ==
    \/ \E sub \in Subjects, ttl \in {NoDelta} \cup 0..MaxTtl : TokIssue(sub, ttl)
    \/ TokValidate
    \/ \E kind \in ProbeKinds : TokProbe(kind)
    \/ TickTo(MaxTTime)

SpecTok == Init /\ [][NextTok]_vars

\* ------------------------------------------------------- ItemService
\* The coroutines of ItemService, awaited by their caller.  Each await of a
\* cache call and each store round trip is one step; calls of other tasks and
\* of other process instances interleave between the steps.
ItemVal(row) == [kind |-> "item", val |-> <<row>>]
ListVal(rows) == [kind |-> "list", val |-> rows]
NoneVal == [kind |-> "none", val |-> <<>>]
BoolVal(b) == [kind |-> IF b THEN "true" ELSE "false", val |-> <<>>]
RaiseVal(what) == [kind |-> what, val |-> <<>>]

\* an update_item or delete_item call on the row is in flight
Mutating(id) ==
    \E t \in ItemTasks : /\ itask[t].op \in {"update_item", "delete_item"}
                         /\ itask[t].id = id
                         /\ itask[t].pc \notin {"idle", "done"}
Updating(id) ==
    \E t \in ItemTasks : /\ itask[t].op = "update_item" /\ itask[t].id = id
                         /\ itask[t].pc \notin {"idle", "done"}

\* a call is made by a task that has none in flight; the tasks are
\* interchangeable, and the second one is taken while the first is busy
ItemCall(t) ==
    /\ itask[t].pc \in {"idle", "done"}
    /\ t = "s2" => itask["s1"].pc \notin {"idle", "done"}
    /\ nops < MaxItemOps

\* the call returns (or raises): what the claims look at is kept
Return(tk, ret, nt) ==
    [tk EXCEPT !.pc = "done", !.ret = ret, !.item = NoRow, !.keys = {},
               !.clean = (tk.m0 = nt[tk.id].mut), !.lost = nt[tk.id].lost]

\* get_item returned: the call the next get_item(id) is compared with
GotItem(tk, ret, nt, cached) ==
    [lastget EXCEPT ![tk.id] = [ok |-> tk.quiet /\ tk.m0 = nt[tk.id].mut, m |-> tk.m0,
                                val |-> ret, cached |-> cached, lost |-> nt[tk.id].lost]]

\* cached_item = await cache_service.get(f"item:{item_id}"); if cached_item: return Item(**cached_item)
get_item(t, id, raises) ==
    /\ ItemCall(t)
    /\ nops' = nops + 1
    /\ LET r == CacheGet(cache_up, cache[ItemKey(id)], raises)
           tk == [IdleItemTask EXCEPT !.op = "get_item", !.no = nops + 1, !.id = id, !.trace = <<"cache_get">>,
                      !.cok = IF cache_up /\ ~raises THEN 1 ELSE 0,
                      !.floor = note[id].donerev, !.seen = store[id].rev,
                      !.quiet = ~Mutating(id), !.m0 = note[id].mut, !.prev = lastget[id]] IN
        IF r.raised
        THEN /\ itask' = [itask EXCEPT ![t] = Return(tk, RaiseVal("raise cache"), note)]
             /\ UNCHANGED lastget
        ELSE IF r.val # <<>>
        THEN /\ itask' = [itask EXCEPT ![t] = Return(tk, ItemVal(r.val[1]), note)]
             /\ lastget' = GotItem(tk, ItemVal(r.val[1]), note, TRUE)
        ELSE /\ itask' = [itask EXCEPT ![t] = [tk EXCEPT !.pc = "query"]]
             /\ UNCHANGED lastget
    /\ UNCHANGED <<clock, requests, window, memVars, redisVars, pipeVars, regVars,
                   store, next_id, cache, cache_up, note, rr>>

\* item = db.query(Item).filter(Item.id == item_id).first(); if item: ... else return item
GetItemQuery(t) ==
    /\ itask[t].pc = "query" /\ itask[t].op = "get_item"
    /\ LET item == QueryFirst(store, itask[t].id)
           tk == [itask[t] EXCEPT !.trace = Append(@, "query"), !.item = item,
                      !.direct = IF item = NoRow THEN NoneVal ELSE ItemVal(item)] IN
        IF item # NoRow
        THEN /\ itask' = [itask EXCEPT ![t] = [tk EXCEPT !.pc = "cache_set"]]
             /\ UNCHANGED lastget
        ELSE /\ itask' = [itask EXCEPT ![t] = Return(tk, NoneVal, note)]
             /\ lastget' = GotItem(tk, NoneVal, note, FALSE)
    /\ UNCHANGED <<clock, requests, window, memVars, redisVars, pipeVars, regVars,
                   store, next_id, cache, cache_up, nops, note, rr>>

\* await cache_service.set(cache_key, item_dict, expire_seconds=600); return item
GetItemCacheSet(t, raises) ==
    /\ itask[t].pc = "cache_set" /\ itask[t].op = "get_item"
    /\ LET id == itask[t].id
           item == itask[t].item
           set == cache_up /\ ~raises
           nt == [note EXCEPT ![id].lost = @ \/ (set /\ (store[id] = NoRow \/ item.rev < store[id].rev))]
           tk == [itask[t] EXCEPT !.trace = Append(@, "cache_set"),
                                  !.cok = @ + (IF set THEN 1 ELSE 0)] IN
        /\ cache' = CacheSet(cache_up, cache, ItemKey(id), <<Snapshot(item)>>, ItemTtl, raises)
        /\ note' = nt
        /\ itask' = [itask EXCEPT ![t] = Return(tk, ItemVal(item), nt)]
        /\ lastget' = GotItem(tk, ItemVal(item), nt, set)
    /\ UNCHANGED <<clock, requests, window, memVars, redisVars, pipeVars, regVars,
                   store, next_id, cache_up, nops, rr>>

\* cached_items = await cache_service.get(f"items:list:{skip}:{limit}"); if cached_items: return [...]
get_items(t, args, raises) ==
    /\ ItemCall(t)
    /\ nops' = nops + 1
    /\ LET r == CacheGet(cache_up, cache[ListKey(args[1], args[2])], raises)
           tk == [IdleItemTask EXCEPT !.op = "get_items", !.no = nops + 1, !.args = args, !.trace = <<"cache_get">>,
                      !.cok = IF cache_up /\ ~raises THEN 1 ELSE 0] IN
        itask' = [itask EXCEPT ![t] =
                    IF r.raised THEN Return(tk, RaiseVal("raise cache"), note)
                    ELSE IF r.val # <<>> THEN Return(tk, ListVal(r.val), note)
                    ELSE [tk EXCEPT !.pc = "query"]]
    /\ UNCHANGED <<clock, requests, window, memVars, redisVars, pipeVars, regVars,
                   store, next_id, cache, cache_up, note, lastget, rr>>

\* items = db.query(Item).offset(skip).limit(limit).all()
GetItemsQuery(t) ==
    /\ itask[t].pc = "query" /\ itask[t].op = "get_items"
    /\ LET items == QueryAll(store, itask[t].args[1], itask[t].args[2]) IN
        itask' = [itask EXCEPT ![t].pc = "cache_set", ![t].trace = Append(@, "query"),
                               ![t].ret = ListVal(items), ![t].direct = ListVal(items)]
    /\ UNCHANGED <<clock, requests, window, memVars, redisVars, pipeVars, regVars,
                   store, next_id, cache, cache_up, nops, note, lastget, rr>>

\* await cache_service.set(cache_key, items_dict, expire_seconds=300); return items
GetItemsCacheSet(t, raises) ==
    /\ itask[t].pc = "cache_set" /\ itask[t].op = "get_items"
    /\ LET items == itask[t].ret.val
           tk == [itask[t] EXCEPT !.trace = Append(@, "cache_set"),
                                  !.cok = @ + (IF cache_up /\ ~raises THEN 1 ELSE 0)] IN
        /\ cache' = CacheSet(cache_up, cache, ListKey(tk.args[1], tk.args[2]),
                             [i \in 1..Len(items) |-> Snapshot(items[i])], ListTtl, raises)
        /\ itask' = [itask EXCEPT ![t] = Return(tk, ListVal(items), note)]
    /\ UNCHANGED <<clock, requests, window, memVars, redisVars, pipeVars, regVars,
                   store, next_id, cache_up, nops, note, lastget, rr>>

\* if db_item:
FoundAlways(db_item) == TRUE
Found(db_item) == db_item # NoRow

\* update_item / delete_item: db_item = db.query(Item).filter(Item.id == item_id).first()
Mutate(t, op, id, body) ==
    /\ ItemCall(t)
    /\ nops' = nops + 1
    /\ LET db_item == QueryFirst(store, id)
           nt == [note EXCEPT ![id].mut = @ + 1,
                              ![id].overlap = @ \/ (op = "update_item" /\ Updating(id))]
           tk == [IdleItemTask EXCEPT !.op = op, !.no = nops + 1, !.id = id, !.trace = <<"query">>,
                      !.data = model_dump(body), !.item = db_item, !.m0 = nt[id].mut] IN
        /\ note' = nt
        /\ itask' = [itask EXCEPT ![t] =
                        IF Found(db_item) THEN [tk EXCEPT !.pc = "commit"]
                        ELSE Return([tk EXCEPT !.direct = IF op = "update_item" THEN NoneVal
                                                          ELSE BoolVal(FALSE)],
                                    IF op = "update_item" THEN NoneVal ELSE BoolVal(FALSE), nt)]
    /\ UNCHANGED <<clock, requests, window, memVars, redisVars, pipeVars, regVars,
                   store, next_id, cache, cache_up, lastget, rr>>

update_item(t, id, body) == Mutate(t, "update_item", id, body)
delete_item(t, id) == Mutate(t, "delete_item", id, Body({}, {}))

\* setattr for each provided field; db.commit(); db.refresh(db_item).  The
\* UPDATE writes the attributes that were set, onto the row as it is now; a
\* row that is gone, or NULL in a NOT NULL column, makes commit raise.
UpdateCommit(t) ==
    /\ itask[t].pc = "commit" /\ itask[t].op = "update_item"
    /\ LET id == itask[t].id
           data == itask[t].data
           applied == ApplyUpdate(store[id], data)
           new == [applied EXCEPT !.rev = @ + (IF data.fields = {} THEN 0 ELSE 1)]
           tk == [itask[t] EXCEPT !.trace = Append(@, "commit")] IN
        IF store[id] = NoRow \/ IntegrityError(applied)
        THEN /\ itask' = [itask EXCEPT ![t] =
                            Return([tk EXCEPT !.direct = RaiseVal("raise store")],
                                   RaiseVal("raise store"), note)]
             /\ UNCHANGED store
        ELSE /\ store' = [store EXCEPT ![id] = new]
             /\ itask' = [itask EXCEPT ![t] = [tk EXCEPT !.pc = "cache_delete", !.item = new,
                                                         !.direct = ItemVal(new)]]
    /\ UNCHANGED <<clock, requests, window, memVars, redisVars, pipeVars, regVars,
                   next_id, cache, cache_up, nops, note, lastget, rr>>

\* db.delete(db_item); db.commit()
DeleteCommit(t) ==
    /\ itask[t].pc = "commit" /\ itask[t].op = "delete_item"
    /\ store' = [store EXCEPT ![itask[t].id] = NoRow]
    /\ itask' = [itask EXCEPT ![t].pc = "cache_delete", ![t].trace = Append(@, "commit"),
                              ![t].direct = BoolVal(TRUE)]
    /\ UNCHANGED <<clock, requests, window, memVars, redisVars, pipeVars, regVars,
                   next_id, cache, cache_up, nops, note, lastget, rr>>

\* await cache_service.delete(f"item:{item_id}")
ItemCacheDeleteDeferred(t, raises) ==
    /\ itask[t].pc = "cache_delete"
    /\ itask' = [itask EXCEPT ![t].pc = "cache_keys"]
    /\ UNCHANGED <<clock, requests, window, memVars, redisVars, pipeVars, regVars,
                   store, next_id, cache, cache_up, nops, note, lastget, rr>>
ItemCacheDelete(t, raises) ==
    /\ itask[t].pc = "cache_delete"
    /\ cache' = CacheDelete(cache_up, cache, {ItemKey(itask[t].id)}, raises)
    /\ note' = [note EXCEPT ![itask[t].id].lost = cache_up /\ raises]
    /\ itask' = [itask EXCEPT ![t].pc = "cache_keys", ![t].trace = Append(@, "cache_delete"),
                              ![t].cok = @ + (IF cache_up /\ ~raises THEN 1 ELSE 0)]
    /\ UNCHANGED <<clock, requests, window, memVars, redisVars, pipeVars, regVars,
                   store, next_id, cache_up, nops, lastget, rr>>

\* update_item returns db_item, delete_item returns True
Mutated(tk, nt) ==
    Return(tk, IF tk.op = "update_item" THEN ItemVal(tk.item) ELSE BoolVal(TRUE), nt)
Completed(tk) ==
    IF tk.op = "update_item" /\ tk.item.rev > note[tk.id].donerev
    THEN [note EXCEPT ![tk.id].donerev = tk.item.rev]
    ELSE note

\* delete_pattern("items:list:*"): keys = await self.redis.keys(pattern); if keys: ...
ItemCacheKeys(t, raises) ==
    /\ itask[t].pc = "cache_keys"
    /\ LET keys == IF cache_up /\ ~raises THEN MatchList(cache) ELSE {}
           tk == [itask[t] EXCEPT !.trace = Append(@, "cache_keys"),
                                  !.cok = @ + (IF cache_up /\ ~raises THEN 1 ELSE 0)] IN
        IF keys # {}
        THEN /\ itask' = [itask EXCEPT ![t] = [tk EXCEPT !.pc = "cache_delete_keys", !.keys = keys]]
             /\ UNCHANGED note
        ELSE /\ note' = Completed(tk)
             /\ itask' = [itask EXCEPT ![t] = Mutated(tk, Completed(tk))]
    /\ UNCHANGED <<clock, requests, window, memVars, redisVars, pipeVars, regVars,
                   store, next_id, cache, cache_up, nops, lastget, rr>>

\* await self.redis.delete(*keys)
ItemCacheDeleteKeys(t, raises) ==
    /\ itask[t].pc = "cache_delete_keys"
    /\ LET tk == [itask[t] EXCEPT !.trace = Append(@, "cache_delete_keys"),
                                  !.cok = @ + (IF ~raises THEN 1 ELSE 0)] IN
        /\ cache' = CacheDelete(cache_up, cache, itask[t].keys, raises)
        /\ note' = Completed(tk)
        /\ itask' = [itask EXCEPT ![t] = Mutated(tk, Completed(tk))]
    /\ UNCHANGED <<clock, requests, window, memVars, redisVars, pipeVars, regVars,
                   store, next_id, cache_up, nops, lastget, rr>>

\* ItemService.create_item (a plain method): Item(**item.model_dump()), add, commit, refresh
CreateBody == [name |-> "b", description |-> "", price |-> 2, quantity |-> 5,
               nulls |-> {"description"}]
Insert(st, id, body, clk) ==
    [st EXCEPT ![id] = [id |-> id, name |-> body.name, description |-> body.description,
                        price |-> body.price, quantity |-> body.quantity,
                        created_at |-> DateTime(clk), nulls |-> body.nulls, rev |-> 0]]

create_item(t) ==
    /\ ItemCall(t)
    /\ next_id \in ItemIds
    /\ nops' = nops + 1
    /\ store' = Insert(store, next_id, CreateBody, clock)
    /\ next_id' = next_id + 1
    /\ note' = [note EXCEPT ![next_id].mut = @ + 1]
    /\ itask' = [itask EXCEPT ![t] =
                    Return([IdleItemTask EXCEPT !.op = "create_item", !.no = nops + 1,
                                                !.id = next_id,
                                                !.trace = <<"commit">>,
                                                !.direct = ItemVal(store'[next_id])],
                           ItemVal(store'[next_id]), note')]
    /\ UNCHANGED <<clock, requests, window, memVars, redisVars, pipeVars, regVars,
                   cache, cache_up, lastget, rr>>

\* the seconds to live of a cache entry have passed
CacheExpire(k) ==
    /\ cache[k].ttl > 0
    /\ cache' = [cache EXCEPT ![k] = NoEntry]
    /\ IF k[1] = "item"
       THEN /\ note' = [note EXCEPT ![k[2]].lost = FALSE]
            /\ lastget' = [lastget EXCEPT ![k[2]].cached = FALSE]
       ELSE UNCHANGED <<note, lastget>>
    /\ UNCHANGED <<clock, requests, window, memVars, redisVars, pipeVars, regVars,
                   store, next_id, cache_up, itask, nops, rr>>

\* the /items route functions (endpoints/items.py) for an authenticated
\* caller.  They are plain functions: create_item runs ItemService.create_item;
\* the others call a coroutine function without awaiting it, so no
\* ItemService code runs and the store and the cache stay as they are.
ItemRoutes == {"items_create", "items_list", "items_get", "items_update", "items_delete"}

RouteCall(route, id) ==
    /\ nops < MaxRouteOps
    /\ route = "items_create" => next_id \in ItemIds
    /\ nops' = nops + 1
    /\ LET r == RouteResult(route, <<>>, users, "alice", FALSE)
           st == IF "store" \in r.ops THEN Insert(store, next_id, CreateBody, clock) ELSE store IN
        /\ store' = st
        /\ next_id' = IF "store" \in r.ops THEN next_id + 1 ELSE next_id
        /\ note' = IF "store" \in r.ops THEN [note EXCEPT ![next_id].mut = @ + 1] ELSE note
        /\ rr' = [route |-> route, id |-> id, present |-> store[id] # NoRow,
                  applied |-> st[id] # store[id], resp |-> r.resp]
    /\ UNCHANGED <<clock, requests, window, memVars, redisVars, pipeVars, regVars,
                   cache, cache_up, itask, lastget>>

\* the PUT bodies the calls are made with
UpdateBodies == {Body({"quantity"}, {}), Body({"name"}, {"name"})}

NextItem ==
    \/ \E t \in ItemTasks, id \in ItemIds, raises \in BOOLEAN : get_item(t, id, raises)
    \/ \E t \in ItemTasks : GetItemQuery(t)
    \/ \E t \in ItemTasks, raises \in BOOLEAN : GetItemCacheSet(t, raises)
    \/ \E t \in ItemTasks, args \in ListArgs, raises \in BOOLEAN : get_items(t, args, raises)
    \/ \E t \in ItemTasks : GetItemsQuery(t)
    \/ \E t \in ItemTasks, raises \in BOOLEAN : GetItemsCacheSet(t, raises)
    \/ \E t \in ItemTasks, id \in ItemIds, body \in UpdateBodies : update_item(t, id, body)
    \/ \E t \in ItemTasks, id \in ItemIds : delete_item(t, id)
    \/ \E t \in ItemTasks : UpdateCommit(t)
    \/ \E t \in ItemTasks : DeleteCommit(t)
    \/ \E t \in ItemTasks, raises \in BOOLEAN : ItemCacheDelete(t, raises)
    \/ \E t \in ItemTasks, raises \in BOOLEAN : ItemCacheKeys(t, raises)
    \/ \E t \in ItemTasks, raises \in BOOLEAN : ItemCacheDeleteKeys(t, raises)
    \/ \E t \in ItemTasks : create_item(t)
    \/ \E k \in CacheKeys : CacheExpire(k)

\* REDIS_URL configured or not; a backend that is there may hold the snapshot
\* of the stored row from an earlier run
WarmCache ==
    [EmptyCache EXCEPT ![ItemKey(1)] = [val |-> <<Snapshot(BaseRow)>>, ttl |-> ItemTtl]]
InitItem ==
    InitBase({PipeQuota}, {PipeWindow}, {"memory"},
             {<<FALSE, EmptyCache>>, <<TRUE, EmptyCache>>, <<TRUE, WarmCache>>})
SpecItem == InitItem /\ [][NextItem]_vars

\* the same operations, one request at a time
NextSeq ==
    \/ \E id \in ItemIds, raises \in BOOLEAN : get_item("s1", id, raises)
    \/ GetItemQuery("s1")
    \/ \E raises \in BOOLEAN : GetItemCacheSet("s1", raises)
    \/ \E args \in ListArgs, raises \in BOOLEAN : get_items("s1", args, raises)
    \/ GetItemsQuery("s1")
    \/ \E raises \in BOOLEAN : GetItemsCacheSet("s1", raises)
    \/ \E id \in ItemIds, body \in UpdateBodies : update_item("s1", id, body)
    \/ \E id \in ItemIds : delete_item("s1", id)
    \/ UpdateCommit("s1")
    \/ DeleteCommit("s1")
    \/ \E raises \in BOOLEAN : ItemCacheDelete("s1", raises)
    \/ \E raises \in BOOLEAN : ItemCacheKeys("s1", raises)
    \/ \E raises \in BOOLEAN : ItemCacheDeleteKeys("s1", raises)
    \/ create_item("s1")
    \/ \E k \in CacheKeys : CacheExpire(k)
SpecSeq == InitItem /\ [][NextSeq]_vars

\* the /items routes as HTTP clients reach them
NextRoute ==
    \/ \E route \in ItemRoutes, id \in ItemIds : RouteCall(route, id)
    \/ \E k \in CacheKeys : CacheExpire(k)
SpecRoute == InitItem /\ [][NextRoute]_vars

\* ------------------------------------------------------------- claims
CallsOf(k) == SelectSeq(hist, LAMBDA e : e.key = k)

\* the first requests+1 calls of client k fall within one window length
BurstInWindow(cs) ==
    /\ Len(cs) >= requests + 1
    /\ cs[requests + 1].t - cs[1].t <= window * TicksPerSecond

BurstDecisions(cs) ==
    /\ \A i \in 1..requests : cs[i].allowed
    /\ ~cs[requests + 1].allowed

\* C1 (as stated): Q+1 calls of one client within one window, from an empty
\* log, give Q permits then a reject, and a next call made once the window
\* length has elapsed (>= window after those calls) is permitted.
C1_Original ==
    \A k \in Clients :
        LET cs == CallsOf(k) IN
        BurstInWindow(cs) =>
            /\ BurstDecisions(cs)
            /\ (Len(cs) >= requests + 2
                /\ cs[requests + 2].t - cs[requests + 1].t >= window * TicksPerSecond)
               => cs[requests + 2].allowed

\* C1 (amended): as above, but the next call is permitted once MORE than
\* the window length has elapsed after those calls; at exactly one window
\* length a timestamp is not yet older than the window and is kept.
C1_BurstThenRecover ==
    \A k \in Clients :
        LET cs == CallsOf(k) IN
        BurstInWindow(cs) =>
            /\ BurstDecisions(cs)
            /\ (Len(cs) >= requests + 2
                /\ cs[requests + 2].t - cs[requests + 1].t > window * TicksPerSecond)
               => cs[requests + 2].allowed

C1_Witness ==
    \E k \in Clients :
        LET cs == CallsOf(k) IN
        /\ BurstInWindow(cs)
        /\ Len(cs) >= requests + 2
        /\ cs[requests + 2].t - cs[requests + 1].t > window * TicksPerSecond
        /\ ~cs[requests + 1].allowed
        /\ cs[requests + 2].allowed
InFlight(k) == \E t \in Tasks : task[t].pc \in {"incr", "expire", "ttl"} /\ RKeyOf(t) = k
Min(a, b) == IF a < b THEN a ELSE b

\* C2 (as stated): with no backend failure, the calls of one (client, window
\* identifier) pair get at most quota permits, and once none is in flight
\* exactly min(n, quota) of the n calls were permitted.
C2_Original ==
    \A k \in RKeys :
        stat[k].fails = 0 =>
            /\ stat[k].permits <= requests
            /\ ~InFlight(k) => stat[k].permits = Min(stat[k].calls, requests)

\* C2 (amended): the same, for calls whose increment is executed by the
\* backend while the clock is still in the window identifier the call computed.
C2_AtomicCounter ==
    \A k \in RKeys :
        (stat[k].fails = 0 /\ stat[k].late = 0) =>
            /\ stat[k].permits <= requests
            /\ ~InFlight(k) => stat[k].permits = Min(stat[k].calls, requests)

C2_Witness ==
    \E k \in RKeys :
        /\ stat[k].fails = 0 /\ stat[k].late = 0 /\ ~InFlight(k)
        /\ stat[k].calls > requests
        /\ stat[k].permits = requests
\* ---- pipeline claims
Downstream == {"decode", "lookup", "store", "cache", "handler"}
HeaderValues(hs, name) == {hs[i][2] : i \in {j \in 1..Len(hs) : Lower(hs[j][1]) = Lower(name)}}
HeaderCount(hs, name) == Cardinality({j \in 1..Len(hs) : Lower(hs[j][1]) = Lower(name)})
SecurityHeaderNames == {security_headers[i][1] : i \in 1..Len(security_headers)}

\* C3: fail-open.  With the shared strategy, an is_allowed call in which a
\* backend call failed returns (permitted, 0), and the request goes on to the
\* downstream application: its response is never the limiter's 429, and it is
\* an error response only if the downstream application produced it.
C3_FailOpen ==
    /\ \A t \in Tasks : (task[t].pc = "done" /\ task[t].failed)
                            => (task[t].allowed /\ task[t].retry_after = 0)
    /\ (strategy = "redis" /\ req.limfail) =>
            /\ req.allowed /\ req.retry_after = 0
            /\ req.pc \in {"app", "handler", "send", "done"}
            /\ req.resp.origin # "limiter"
            /\ req.resp.status # 429
            /\ req.resp.origin = "server_error" => "handler" \in req.ops

C3_Witness ==
    /\ strategy = "redis" /\ req.limfail /\ req.pc = "done"
    /\ req.resp.origin = "handler" /\ req.resp.status = 201

\* C4: the rate limiter decides before anything downstream runs, and a
\* request it rejects is answered 429 with Retry-After = retry_after and sees
\* no token validation, credential lookup, cache or store operation.
C4_LimiterFirst ==
    /\ (req.ops \cap Downstream # {} \/ req.pc \in {"app", "handler"}) =>
            ("limiter" \in req.ops /\ req.allowed)
    /\ ("limiter" \in req.ops /\ ~req.allowed) =>
            /\ req.pc \in {"send", "done"}
            /\ req.resp.status = 429
            /\ HeaderValues(req.resp.headers, "retry-after") = {NumStr(req.retry_after)}
            /\ req.ops = {"limiter"}

C4_Witness ==
    /\ req.pc = "done" /\ "limiter" \in req.ops /\ ~req.allowed
    /\ req.resp.status = 429 /\ req.retry_after > 0

\* C5: every response the service emits carries the six security headers.
C5_EveryResponseCarries ==
    req.pc = "done" =>
        \A name \in SecurityHeaderNames : HeaderCount(req.resp.headers, name) >= 1

\* C6: a security header the route's response already carries, under any
\* letter case, is sent exactly once with the route's value, and the headers
\* of the response are otherwise unchanged.
C6_Step ==
    (req.pc = "send" /\ req'.pc = "done") =>
        LET before == req.resp.headers
            after == req'.resp.headers IN
        /\ Len(after) >= Len(before)
        /\ \A i \in 1..Len(before) : after[i] = before[i]
        /\ \A name \in SecurityHeaderNames :
              HeaderCount(before, name) >= 1 =>
                  /\ HeaderCount(after, name) = 1
                  /\ HeaderValues(after, name) = HeaderValues(before, name)
\* C6: every step of send_wrapper keeps the route's security headers as they are
C6_NoOverride == [][C6_Step]_vars
\* the seven routes the claim names
GatedRoutes == {"items_create", "items_list", "items_get", "items_update", "items_delete",
                "auth_me", "users_profile"}
\* the held token is valid now and names an existing, active Credential
HeldTokenGood ==
    /\ held # NoToken
    /\ decode_token(held, clock) # None
    /\ users[decode_token(held, clock)] = "active"
\* the step in which the router resolves the dependencies of a gated route
GateStep == req.pc = "app" /\ req'.pc # "app" /\ req'.route \in GatedRoutes

\* C7: on each gated route the route function runs, and store or cache is
\* touched, only after the Auth Gate resolved an active Credential: never for
\* a missing or invalid token, an unknown subject or an inactive Credential.
C7_Step ==
    /\ (GateStep /\ ~(req'.token = "held" /\ HeldTokenGood)) =>
            (req'.pc = "send" /\ req'.ops \cap {"handler", "store", "cache"} = {})
    /\ (req'.ops \ req.ops) \cap {"handler", "store", "cache"} # {} =>
            (req.pc = "handler" /\ (req.route \in GatedRoutes => req.authed))
\* C7: every step respects the Auth Gate on the gated routes
C7_GateProtects == [][C7_Step]_vars

C7_Witness ==
    /\ req.pc = "done" /\ req.route = "items_create" /\ req.token = "forged"
    /\ req.resp.status = 401 /\ "handler" \notin req.ops

Unauthenticated401 ==
    [status |-> 401, detail |-> "Could not validate credentials",
     headers |-> << <<"content-type", "application/json">>, <<"www-authenticate", "Bearer">> >>,
     origin |-> "gate"]

\* C8: a token that fails validation and a valid token of an unknown subject
\* get one and the same 401 response; a valid token of an inactive Credential
\* gets 400 'Inactive user'; the Credential is yielded only for a valid token
\* of an existing active Credential.
C8_Step ==
    (GateStep /\ req'.token # "none") =>
        LET sub == IF req'.token = "held" THEN decode_token(held, clock) ELSE None IN
        /\ sub = None => req'.resp = Unauthenticated401
        /\ (sub # None /\ users[sub] = "absent") => req'.resp = Unauthenticated401
        /\ (sub # None /\ users[sub] = "inactive") =>
                (req'.resp.status = 400 /\ req'.resp.detail = "Inactive user")
        /\ req'.authed <=> (sub # None /\ users[sub] = "active")
\* C8: every Auth Gate step answers as above
C8_GateOutcomes == [][C8_Step]_vars

C8_Witness ==
    /\ req.pc = "done" /\ req.token = "held" /\ req.resp.status = 401
    /\ req.resp.detail = "Could not validate credentials" /\ "lookup" \in req.ops

\* C9: the gate decides from the Credential as it is at the request: a
\* request with the unexpired token of the login is accepted exactly when
\* the Credential is active at that moment, whatever happened before.
C9_Step ==
    (GateStep /\ req'.token = "held" /\ decode_token(held, clock) # None) =>
        (req'.pc = "handler" <=> users[decode_token(held, clock)] = "active")
\* C9: every Auth Gate step decides from the Credential as stored at that step
C9_ReResolves == [][C9_Step]_vars

\* the token was issued to an active user, then rejected, then accepted again
C9_Witness == gate = "reaccepted" /\ req.authed

\* ---- token claims
\* C10 (as stated): the issued token decodes to its subject at every instant
\* before its expiry instant and to None at every instant past it.
C10_Original ==
    (val.at >= 0 /\ issued.sub # NoSub) =>
        /\ val.at < issued.expire => val.res = issued.sub
        /\ val.at > issued.expire => val.res = None

\* C10 (amended): ... and to None at every instant whose whole second is
\* past the whole second of the expiry instant (exp is kept and compared in
\* whole seconds, so the token stays valid to the end of its expiry second).
C10_RoundTripExpiry ==
    (val.at >= 0 /\ issued.sub # NoSub) =>
        /\ val.at < issued.expire => val.res = issued.sub
        /\ (val.at \div TicksPerSecond > issued.expire \div TicksPerSecond) => val.res = None

C10_Witness ==
    /\ val.at >= 0 /\ issued.sub = "bob"
    /\ val.at \div TicksPerSecond > issued.expire \div TicksPerSecond
    /\ val.res = None

\* ---- POST /auth/register
\* the request arrives (a second thread serves one only while the first is
\* busy) and the handler looks the email up
register(t, u, e) ==
    /\ rtask[t].pc \in {"idle", "done"}
    /\ nregs < MaxRegs
    /\ t = "r2" => rtask["r1"].pc \notin {"idle", "done"}
    /\ nregs' = nregs + 1
    /\ LET r == [IdleReg EXCEPT !.username = u, !.email = e,
                                !.had_user = get_user_by_username(accounts, u) # {},
                                !.had_email = get_user_by_email(accounts, e) # {}] IN
        rtask' = [rtask EXCEPT ![t] =
            IF get_user_by_email(accounts, e) # {}
            THEN [r EXCEPT !.pc = "done",
                           !.resp = [status |-> 400, detail |-> "Email already registered"]]
            ELSE [r EXCEPT !.pc = "username"]]
    /\ UNCHANGED <<clock, requests, window, memVars, redisVars, pipeVars, itemVars, accounts>>

\* the handler looks the username up
RegisterUsername(t) ==
    /\ rtask[t].pc = "username"
    /\ rtask' = [rtask EXCEPT ![t] =
            IF get_user_by_username(accounts, @.username) # {}
            THEN [@ EXCEPT !.pc = "done",
                           !.resp = [status |-> 400, detail |-> "Username already taken"]]
            ELSE [@ EXCEPT !.pc = "create"]]
    /\ UNCHANGED <<clock, requests, window, memVars, redisVars, pipeVars, itemVars, accounts, nregs>>

\* UserService.create_user: the Credential is stored, unless one with that
\* username or email was stored meanwhile
create_user(t) ==
    /\ rtask[t].pc = "create"
    /\ IF UniqueViolation(accounts, rtask[t].username, rtask[t].email)
       THEN /\ rtask' = [rtask EXCEPT ![t].pc = "done",
                            ![t].resp = [status |-> 500, detail |-> "Internal Server Error"]]
            /\ UNCHANGED accounts
       ELSE /\ accounts' = accounts \cup {Credential(rtask[t].username, rtask[t].email)}
            /\ rtask' = [rtask EXCEPT ![t].pc = "done", ![t].created = TRUE,
                            ![t].resp = [status |-> 201, detail |-> "-"]]
    /\ UNCHANGED <<clock, requests, window, memVars, redisVars, pipeVars, itemVars, nregs>>

NextReg ==
    \/ \E t \in RegTasks, u \in RegNames, e \in Emails : register(t, u, e)
    \/ \E t \in RegTasks : RegisterUsername(t)
    \/ \E t \in RegTasks : create_user(t)

InitReg == InitWith({PipeQuota}, {PipeWindow}, {"memory"})
SpecReg == InitReg /\ [][NextReg]_vars

\* ---- Resource Service claims
GetsDone == {t \in ItemTasks : itask[t].pc = "done" /\ itask[t].op = "get_item"}
Rev(ret) == ret.val[1].rev

UpdateTraces == { <<"query", "commit", "cache_delete", "cache_keys">>,
                  <<"query", "commit", "cache_delete", "cache_keys", "cache_delete_keys">> }
UpdatesInOrder ==
    \A t \in ItemTasks :
        (itask[t].pc = "done" /\ itask[t].op = "update_item" /\ itask[t].ret.kind = "item")
            => itask[t].trace \in UpdateTraces

GetStarts(t) == itask'[t].op = "get_item" /\ itask'[t].no = nops + 1 /\ nops' = nops + 1
\* the cache answers the call with the entry of the key
Served(t) == cache_up /\ itask'[t].cok = 1 /\ cache[ItemKey(itask'[t].id)].ttl > 0

\* C14, the steps of get_item: a hit returns the cached snapshot and the call
\* is over without a store read; a miss goes to the store; an absent row
\* returns None and writes nothing; a present row is written to the cache
\* under item:<id> with TTL 600, when the backend takes it, and returned.
C14_Step ==
    \A t \in ItemTasks :
        /\ (GetStarts(t) /\ Served(t)) =>
                /\ itask'[t].pc = "done" /\ itask'[t].trace = <<"cache_get">>
                /\ itask'[t].ret = ItemVal(cache[ItemKey(itask'[t].id)].val[1])
                /\ UNCHANGED <<store, cache>>
        /\ (GetStarts(t) /\ ~Served(t)) => (itask'[t].pc = "query" /\ UNCHANGED <<store, cache>>)
        /\ (itask[t].op = "get_item" /\ itask[t].pc = "query" /\ itask'[t] # itask[t]) =>
                /\ UNCHANGED <<store, cache>>
                /\ IF store[itask[t].id] = NoRow
                   THEN itask'[t].pc = "done" /\ itask'[t].ret = NoneVal
                   ELSE itask'[t].pc = "cache_set" /\ itask'[t].item = store[itask[t].id]
        /\ (itask[t].op = "get_item" /\ itask[t].pc = "cache_set" /\ itask'[t] # itask[t]) =>
                /\ itask'[t].pc = "done" /\ itask'[t].ret = ItemVal(itask[t].item)
                /\ UNCHANGED store
                /\ \A k \in CacheKeys \ {ItemKey(itask[t].id)} : cache'[k] = cache[k]
                /\ IF itask'[t].cok > itask[t].cok
                   THEN cache'[ItemKey(itask[t].id)] =
                            [val |-> <<Snapshot(itask[t].item)>>, ttl |-> 600]
                   ELSE UNCHANGED cache

\* get_item calls t made after a get_item of the same id had returned, with
\* no update, delete or create of the id in flight or made from the start of
\* the first to the end of the second
Successive(t) ==
    /\ itask[t].pc = "done" /\ itask[t].op = "get_item"
    /\ itask[t].prev.ok /\ itask[t].quiet /\ itask[t].clean
    /\ itask[t].prev.m = itask[t].m0
Payload(ret) == [ret EXCEPT !.val = [i \in 1..Len(@) |-> ItemResponse(@[i])]]
\* the entry the first call read or wrote was still there and the backend
\* answered the second call
CacheCalls(trace) ==
    Cardinality({i \in 1..Len(trace) : trace[i] \in {"cache_get", "cache_set"}})
StillCached(t) ==
    cache_up /\ itask[t].prev.cached /\ itask[t].cok = CacheCalls(itask[t].trace)

\* the steps of get_item, and the same payload for two successive calls
C14_OriginalStep ==
    /\ C14_Step
    /\ \A t \in ItemTasks :
          Successive(t)' =>
              /\ Payload(itask'[t].ret) = Payload(itask'[t].prev.val)
              /\ StillCached(t)' => itask'[t].trace = <<"cache_get">>

C14_AmendedStep ==
    /\ C14_Step
    /\ \A t \in ItemTasks :
          (Successive(t)' /\ ~itask'[t].prev.lost) =>
              /\ Payload(itask'[t].ret) = Payload(itask'[t].prev.val)
              /\ StillCached(t)' => itask'[t].trace = <<"cache_get">>

ServiceOps == {"get_item", "get_items", "update_item", "delete_item"}
C15_Step ==
    \A t \in ItemTasks :
        /\ (itask'[t].pc = "done" /\ itask'[t].op \in ServiceOps /\ itask'[t].cok = 0) =>
                /\ itask'[t].ret = itask'[t].direct
                /\ itask'[t].ret.kind # "raise cache"
                /\ "query" \in {itask'[t].trace[i] : i \in 1..Len(itask'[t].trace)}
        /\ (itask[t].op \in ServiceOps /\ itask[t].pc \notin {"idle", "done", "commit"}
             /\ itask'[t] # itask[t]) => UNCHANGED store
        /\ (itask[t].pc \notin {"idle", "done"} /\ itask'[t] # itask[t]
             /\ (~cache_up \/ itask'[t].cok = itask[t].cok)) => UNCHANGED cache

\* C15: a get_item, get_items, update_item or delete_item call none of whose
\* cache calls went through (no backend, or every call raising) returns
\* what the store alone gives and raises nothing of the cache's; steps of
\* such calls other than their commit leave the store as it is.
C15_Advisory == [][C15_Step]_vars

C15_Witness ==
    \E t \in ItemTasks :
        /\ cache_up /\ itask[t].pc = "done" /\ itask[t].op = "update_item"
        /\ itask[t].cok = 0 /\ itask[t].ret.kind = "item"
        /\ cache[ItemKey(itask[t].id)].ttl > 0

\* C16: an authenticated GET, PUT or DELETE /items/{id} of an absent id is
\* answered 404 'Item not found'; PUT and DELETE of a present id have changed
\* the store when the response is made.
C16_NotFoundAndApplied ==
    rr.route \in {"items_get", "items_update", "items_delete"} =>
        /\ ~rr.present => (rr.resp.status = 404 /\ rr.resp.detail = "Item not found")
        /\ (rr.present /\ rr.route # "items_get") => rr.applied

\* C11: decode_token returns None, and raises nothing, for a token signed with
\* another secret, a malformed token, a correctly signed token without a
\* subject claim and an expired token, whatever else is wrong with it: no
\* result tells the failure modes apart.
C11_OneFailureOutcome ==
    (probe.kind # "-" /\ (probe.kind # "held" \/ probe.expired)) => probe.res = None

C11_Witness ==
    /\ probe.kind = "held" /\ probe.expired /\ probe.res = None
    /\ issued.sub = "alice"

\* C17: a register request whose username is that of an existing Credential
\* is answered 400 'Username already taken', whatever its email, and creates
\* no Credential; one whose email is already registered is answered 400 and
\* creates no Credential.
C17_Conflict ==
    \A t \in RegTasks :
        rtask[t].pc = "done" =>
            /\ rtask[t].had_user =>
                  /\ rtask[t].resp = [status |-> 400, detail |-> "Username already taken"]
                  /\ ~rtask[t].created
            /\ rtask[t].had_email =>
                  /\ rtask[t].resp.status = 400
                  /\ ~rtask[t].created

\* the commit step of an update_item call on a row that exists: every field
\* of the payload has the payload's value (null included) afterwards, every
\* other field its old value
C18_Step ==
    /\ \A t \in ItemTasks :
          (itask[t].pc = "commit" /\ itask[t].op = "update_item"
           /\ itask'[t] # itask[t] /\ store[itask[t].id] # NoRow) =>
              LET data == itask[t].data
                  old == store[itask[t].id]
                  new == store'[itask[t].id] IN
                \A f \in ItemUpdate :
                    IF f \in data.fields
                    THEN IF f \in data.nulls THEN f \in new.nulls
                         ELSE f \notin new.nulls /\ new[f] = data[f]
                    ELSE new[f] = old[f] /\ (f \in new.nulls <=> f \in old.nulls)
    /\ \A i \in ItemIds :
          (store[i] # NoRow /\ store'[i] # NoRow) =>
              (store'[i].id = store[i].id /\ store'[i].created_at = store[i].created_at)

\* C18: update_item(id, payload) on an existing row changes exactly the
\* fields present in the payload to the payload's values and leaves every
\* other field unchanged; id and created_at are never changed.
C18_PartialUpdate == [][C18_Step]_vars

\* ---- sliding log of the in-process strategy
\* timestamps of the permitted calls of client k, in call order
Permitted(k) ==
    LET ok == SelectSeq(CallsOf(k), LAMBDA c : c.allowed) IN
    [i \in 1..Len(ok) |-> ok[i].t]
\* the log holds at most quota timestamps, none older than one window length
\* at instant `at`, in non-decreasing order
LogWithin(k, at) ==
    /\ Len(storage[k]) <= requests
    /\ \A i \in 1..Len(storage[k]) :
          storage[k][i] <= at /\ at - storage[k][i] <= window * TicksPerSecond
    /\ \A i \in 1..Len(storage[k]) - 1 : storage[k][i] <= storage[k][i + 1]
\* no more than quota permits of client k in any interval of one window length
PermitsBounded(k) ==
    \A a \in 0..MaxTime :
        Cardinality({i \in 1..Len(Permitted(k)) :
                        /\ a <= Permitted(k)[i]
                        /\ Permitted(k)[i] <= a + window * TicksPerSecond}) <= requests
\* the log is the permitted calls not older than one window length at the
\* client's latest call: a rejected call has appended nothing
LogIsPermits(k) ==
    CallsOf(k) # <<>> =>
        LET last == CallsOf(k)[Len(CallsOf(k))].t IN
        storage[k] = SelectSeq(Permitted(k), LAMBDA ts : last - ts <= window * TicksPerSecond)

\* C19 (as stated): after any sequence of is_allowed calls each client's log
\* holds at most quota timestamps, all within the last window length (the one
\* that ends at the last call of the sequence), in non-decreasing order; no
\* client has more than quota permits in any interval of one window length;
\* a rejected call appends nothing.
C19_Original ==
    hist # <<>> =>
        \A k \in Clients :
            LogWithin(k, hist[Len(hist)].t) /\ PermitsBounded(k) /\ LogIsPermits(k)

\* C19 (amended): after any sequence of is_allowed calls each client's log
\* holds at most quota timestamps, all within the window length that ends at
\* that client's own latest call, in non-decreasing order; no client has more
\* than quota permits in any interval of one window length; a rejected call
\* appends nothing.
C19_SlidingLog ==
    \A k \in Clients :
        /\ CallsOf(k) # <<>> => LogWithin(k, CallsOf(k)[Len(CallsOf(k))].t)
        /\ PermitsBounded(k)
        /\ LogIsPermits(k)

C19_Witness ==
    \E k \in Clients :
        LET cs == CallsOf(k) IN
        /\ Len(cs) >= 4 /\ requests = 2 /\ Len(storage[k]) = 2
        /\ ~cs[3].allowed /\ cs[4].allowed
        /\ storage[k][1] < storage[k][2]
        /\ cs[4].t - storage[k][1] = window * TicksPerSecond

\* ---- rejection by the shared strategy
\* a call whose increment went through goes on to the TTL read exactly when
\* the post-increment count exceeds the quota
OverQuotaReadsTtl ==
    \A t \in Tasks :
        (task[t].pc = "incr" /\ task'[t] # task[t] /\ ~task'[t].failed) =>
            LET count == rdb'[RKeyOf(t)].count IN
            IF count > requests
            THEN task'[t].pc = (IF count = 1 THEN "expire" ELSE "ttl")
            ELSE task'[t].pc # "ttl"
\* what a call returns when its TTL read answers
TtlAnswer(t) ==
    LET ttl == RedisTtl(rdb[RKeyOf(t)], clock) IN
    /\ ~task'[t].allowed
    /\ task'[t].retry_after = (IF ttl > 0 THEN ttl ELSE window)
    /\ task'[t].retry_after \in 1..window

C20_OriginalStep ==
    /\ OverQuotaReadsTtl
    /\ \A t \in Tasks :
          (task[t].pc = "ttl" /\ task'[t].pc = "done") =>
              IF task'[t].failed
              THEN ~task'[t].allowed /\ task'[t].retry_after = window
              ELSE TtlAnswer(t)

C20_AmendedStep ==
    /\ OverQuotaReadsTtl
    /\ \A t \in Tasks :
          (task[t].pc = "ttl" /\ task'[t].pc = "done") =>
              IF task'[t].failed
              THEN task'[t].allowed /\ task'[t].retry_after = 0
              ELSE TtlAnswer(t)
    /\ \A t \in Tasks :
          (task'[t].pc = "done" /\ ~task'[t].allowed) =>
              task'[t].retry_after \in 1..window

ExpiryOnFirstIncrement ==
    \A k \in RKeys :
        stat'[k].exps > stat[k].exps =>
            \E t \in Tasks : /\ task[t].pc = "expire" /\ task[t].current = 1
                             /\ RKeyOf(t) = k /\ task'[t] # task[t]
\* a call works on the counter of the window identifier of its own clock, and
\* on no other counter
OwnWindowOnly ==
    /\ \A t \in Tasks :
          task'[t].pc # "idle" => task'[t].wts = task'[t].now \div window
    /\ \A k \in RKeys :
          rdb'[k] # rdb[k] => \E t \in Tasks : RKeyOf(t) = k /\ task'[t] # task[t]
\* the increment that finds no counter under the key returns 1
FirstSeesOne ==
    \A t \in Tasks :
        (task[t].pc = "incr" /\ task'[t] # task[t] /\ ~task'[t].failed
         /\ rdb[RKeyOf(t)].count = 0) =>
            /\ rdb'[RKeyOf(t)].count = 1
            /\ task'[t].pc = "expire" /\ task'[t].current = 1
\* an expiry that was set does not fall before the end of the key's window
NotBeforeWindowEnds(k) ==
    (rdb[k].count > 0 /\ rdb[k].exp # -1) =>
        rdb[k].exp >= (k[2] + 1) * window * TicksPerSecond
\* the key got its expiry once, as soon as no call is at work on it
ExpiryOnce(k) ==
    /\ stat[k].exps <= 1
    /\ (rdb[k].count > 0 /\ ~InFlight(k)) => (stat[k].exps = 1 /\ rdb[k].exp # -1)

C21_OriginalStep ==
    /\ ExpiryOnFirstIncrement /\ OwnWindowOnly /\ FirstSeesOne
    /\ \A k \in RKeys : NotBeforeWindowEnds(k)' /\ ExpiryOnce(k)'

C21_AmendedStep ==
    /\ ExpiryOnFirstIncrement /\ OwnWindowOnly /\ FirstSeesOne
    /\ \A k \in RKeys :
          /\ NotBeforeWindowEnds(k)'
          /\ (stat'[k].fails = 0 /\ stat'[k].late = 0) => ExpiryOnce(k)'

RECURSIVE Logged(_, _, _)
Logged(c, a, b) ==
    IF a > b THEN 0
    ELSE (IF <<c, a>> \in RKeys THEN rlog[<<c, a>>] ELSE 0) + Logged(c, a + 1, b)
ReturnedPermits(c, a, b) ==
    Logged(c, a, b)
    + Cardinality({t \in Tasks :
                    /\ task[t].pc = "done" /\ task[t].key = c /\ task[t].allowed
                    /\ a <= task[t].now /\ task[t].now <= b})
NoFailure(c) == \A w \in WindowIds : stat[<<c, w>>].fails = 0
NoneLate(c) == \A w \in WindowIds : stat[<<c, w>>].late = 0
BurstBound(c) ==
    /\ \A a \in WindowIds : ReturnedPermits(c, a, a + window) <= 2 * requests
    /\ \A w \in WindowIds : stat[<<c, w>>].permits <= requests

MutateStarts(t) ==
    /\ itask'[t].op \in {"update_item", "delete_item"}
    /\ itask'[t].no = nops + 1 /\ nops' = nops + 1
\* the task takes a step of its update_item or delete_item call
MutateSteps(t) ==
    \/ MutateStarts(t)
    \/ /\ itask[t].op \in {"update_item", "delete_item"}
       /\ itask[t].pc \notin {"idle", "done"} /\ itask'[t] # itask[t]
\* the cache calls an invalidation makes
InvalidationCalls(trace) ==
    Cardinality({i \in 1..Len(trace) :
                    trace[i] \in {"cache_delete", "cache_keys", "cache_delete_keys"}})
\* the call returned its result and every cache call it made went through
Invalidated(tk) ==
    /\ tk.pc = "done" /\ tk.ret.kind \in {"item", "true"}
    /\ cache_up /\ InvalidationCalls(tk.trace) >= 2
    /\ tk.cok = InvalidationCalls(tk.trace)

C24_Step ==
    /\ MutateSteps("s1") =>
          /\ \A k \in CacheKeys : cache'[k] \in {cache[k], NoEntry}
          /\ \A i \in ItemIds \ {itask'["s1"].id} : cache'[ItemKey(i)] = cache[ItemKey(i)]
          /\ Invalidated(itask'["s1"]) =>
                /\ cache'[ItemKey(itask'["s1"].id)] = NoEntry
                /\ \A a \in ListArgs : cache'[ListKey(a[1], a[2])] = NoEntry
    /\ (itask'["s1"].pc = "done" /\ itask'["s1"].op = "get_item"
        /\ store'[itask'["s1"].id] = NoRow /\ ~itask'["s1"].lost) =>
          itask'["s1"].ret.kind = "none"

\* C24: run one request at a time and with every cache call going through, a
\* successful update_item(id) or delete_item(id) ends with item:<id> absent
\* and no items:list:* key present, leaves the entries of other ids as they
\* are and writes no cache entry; a get_item(id) that follows such a
\* delete_item(id) returns not found, whatever the cache held before.
C24_InvalidateNeverPatch == [][C24_Step]_vars

C24_Witness ==
    /\ itask["s1"].pc = "done" /\ itask["s1"].op = "get_item" /\ itask["s1"].id = 1
    /\ store[1] = NoRow /\ ~itask["s1"].lost /\ cache_up
    /\ itask["s1"].ret.kind = "none" /\ itask["s1"].cok = 1
    /\ itask["s1"].prev.val.kind = "item" /\ itask["s1"].prev.cached

\* ---- update_item and delete_item of an absent id
C25_Step ==
    (MutateStarts("s1") /\ store[itask'["s1"].id] = NoRow) =>
        /\ itask'["s1"].pc = "done"
        /\ itask'["s1"].ret = (IF itask'["s1"].op = "update_item" THEN NoneVal
                               ELSE BoolVal(FALSE))
        /\ itask'["s1"].trace = <<"query">>
        /\ UNCHANGED <<store, cache>>

\* C25: update_item and delete_item on an id absent from the store return
\* None, respectively False, make no cache call and leave the store
\* unchanged.
C25_NotFoundUnchanged == [][C25_Step]_vars

C25_Witness ==
    /\ itask["s1"].pc = "done" /\ itask["s1"].op = "delete_item" /\ itask["s1"].id = 1
    /\ itask["s1"].ret = BoolVal(FALSE) /\ itask["s1"].trace = <<"query">>
    /\ store[1] = NoRow /\ cache_up /\ \E a \in ListArgs : cache[ListKey(a[1], a[2])] # NoEntry

\* ---- the list cache
\* the task starts a get_items call in this step
GetItemsStarts(t) ==
    /\ itask'[t].op = "get_items"
    /\ itask'[t].no = nops + 1 /\ nops' = nops + 1
\* what get_items caches for a store result
Snapshots(items) == [i \in 1..Len(items) |-> Snapshot(items[i])]
\* the entry of the list key holds what the store returns for the arguments now
ListCached(args) ==
    /\ cache[ListKey(args[1], args[2])].ttl > 0
    /\ cache[ListKey(args[1], args[2])].val = Snapshots(QueryAll(store, args[1], args[2]))
\* a call with a working cache reads the store and caches the snapshot for 300 s
C23_FirstCall ==
    (/\ itask["s1"].op = "get_items" /\ itask["s1"].pc = "cache_set"
     /\ itask'["s1"].pc = "done" /\ itask'["s1"].cok = 2) =>
        /\ itask'["s1"].trace = <<"cache_get", "query", "cache_set">>
        /\ cache'[ListKey(itask["s1"].args[1], itask["s1"].args[2])] =
              [val |-> Snapshots(itask["s1"].direct.val), ttl |-> 300]
\* a call that finds the snapshot is served from it
C23_Repeated(results) ==
    (/\ GetItemsStarts("s1") /\ cache_up /\ itask'["s1"].cok = 1
     /\ ListCached(itask'["s1"].args)
     /\ QueryAll(store, itask'["s1"].args[1], itask'["s1"].args[2]) \in results) =>
        /\ itask'["s1"].pc = "done"
        /\ itask'["s1"].trace = <<"cache_get">>
        /\ itask'["s1"].ret =
              ListVal(cache[ListKey(itask'["s1"].args[1], itask'["s1"].args[2])].val)
StoreResults == {QueryAll(store, a[1], a[2]) : a \in ListArgs}
C23_Step == C23_FirstCall /\ C23_Repeated(StoreResults)
C23_NonEmptyStep == C23_FirstCall /\ C23_Repeated(StoreResults \ {<<>>})

\* C23: get_items is cache-aside under items:list:<skip>:<limit> with a TTL
\* of 300 s: for every result the store returns for (skip, limit), the empty
\* list included, the first call reads the store and caches the snapshot, and
\* a repeated call with the same (skip, limit) and no mutation in between is
\* served from the cache without a store read.
C23_ListCacheAside == [][C23_Step]_vars
\* the same for the results that are not empty
C23_NonEmpty == [][C23_NonEmptyStep]_vars
C23_NonEmptyWitness ==
    /\ itask["s1"].op = "get_items" /\ itask["s1"].pc = "done" /\ itask["s1"].no = 2
    /\ itask["s1"].trace = <<"cache_get">> /\ itask["s1"].ret.kind = "list"
    /\ Len(itask["s1"].ret.val) = 1 /\ ListCached(itask["s1"].args)

\* ---- the list after create_item
\* the ids of the rows or snapshots of a list
IdsOf(items) == {items[i].id : i \in 1..Len(items)}
C26_Step ==
    (/\ itask'["s1"].op = "get_items" /\ itask'["s1"].pc = "done"
     /\ itask'["s1"] # itask["s1"] /\ itask'["s1"].ret.kind = "list") =>
        \A id \in IdsOf(QueryAll(store', itask'["s1"].args[1], itask'["s1"].args[2])) :
            id # BaseRow.id => id \in IdsOf(itask'["s1"].ret.val)

\* C26: after a create_item completed, a following get_items whose slice of
\* the store contains the new row returns a list that contains it.
C26_FreshAfterCreate == [][C26_Step]_vars

\* ---- the item cache once the requests are over
\* every request has completed
Quiescent == \A t \in ItemTasks : itask[t].pc \in {"idle", "done"}
\* the entry of the item key, if present, is the snapshot of the row in the store
EntryIsRow(id) ==
    cache[ItemKey(id)].ttl > 0 =>
        /\ store[id] # NoRow
        /\ cache[ItemKey(id)].val = <<Snapshot(store[id])>>

RetriedOnTime(k) ==
    {i \in 1..(Len(CallsOf(k)) - 1) :
        /\ ~CallsOf(k)[i].allowed
        /\ CallsOf(k)[i + 1].t = CallsOf(k)[i].t + CallsOf(k)[i].retry_after * TicksPerSecond}
\* every reported retry_after lies in 0..window
RetryAfterInRange ==
    \A i \in 1..Len(hist) : ~hist[i].allowed => hist[i].retry_after \in 0..window

\* C28: when the in-process strategy rejects a call at time t with
\* retry_after r, r lies in 0..window and a call of that client at t + r,
\* with no other call of the client in between, is permitted.
C28_RetryAfterSufficient ==
    /\ RetryAfterInRange
    /\ \A k \in Clients : \A i \in RetriedOnTime(k) : CallsOf(k)[i + 1].allowed
\* a retry after exactly retry_after seconds is never permitted
C28_RetryTooEarly ==
    \A k \in Clients : \A i \in RetriedOnTime(k) : ~CallsOf(k)[i + 1].allowed
C28_RetryWitness ==
    \E k \in Clients : \E i \in RetriedOnTime(k) :
        CallsOf(k)[i].retry_after = 1 /\ ~CallsOf(k)[i + 1].allowed

\* ---- the in-process strategy under concurrent tasks
\* is_allowed has no suspension point, so the calls of the tasks run one
\* after the other in some order: hist is that order
\* the permitted calls of client k not older than one window length at `at`
RecentPermits(k, at) ==
    {i \in 1..Len(Permitted(k)) : at - Permitted(k)[i] <= window * TicksPerSecond}
C29_Step ==
    \A k \in Clients :
        (Len(hist') = Len(hist) + 1 /\ hist'[Len(hist')].key = k) =>
            /\ \A o \in Clients \ {k} : storage'[o] = storage[o]
            /\ LogIsPermits(k)
            /\ hist'[Len(hist')].allowed = (Cardinality(RecentPermits(k, clock)) < requests)
            /\ LogIsPermits(k)'
            /\ PermitsBounded(k)'

\* C29: with tasks that interleave only at suspension points, a call of the
\* in-process strategy for one client never changes another client's log,
\* every decision is taken on a log that no other call is in the middle of
\* modifying (it holds exactly the client's permitted calls of the window
\* before and after each call), and no client gets more than quota permits
\* in any interval of one window length.
C29_TaskIsolation == [][C29_Step]_vars

C29_Witness ==
    /\ Len(hist) >= 4 /\ requests = 1
    /\ hist[1].key = "ipA" /\ hist[1].allowed
    /\ hist[2].key = "ipB" /\ hist[2].allowed
    /\ hist[3].key = "ipA" /\ ~hist[3].allowed /\ hist[3].t = hist[2].t
    /\ hist[4].key = "ipB" /\ ~hist[4].allowed /\ hist[4].t = hist[3].t
    /\ storage["ipA"] # storage["ipB"]

\* ---- expiry of an issued token
\* the exp claim of a token whose expiry instant is `at` (ticks)
ExpClaim(at) == at \div TicksPerSecond
\* the token issued in this step has the expiry now + ttl for each ttl in
\* `passed`, the default for a call without ttl, and the subject of the input
C30_Step(passed) ==
    (issued' # issued /\ issued'.delta \in passed \cup {NoDelta}) =>
        /\ held'.sub = issued'.sub
        /\ held'.sig = SecretKey
        /\ held'.exp = ExpClaim(IF issued'.delta # NoDelta
                                THEN clock + issued'.delta * TicksPerSecond
                                ELSE clock + AccessTokenExpire * TicksPerSecond)

\* C30: create_access_token gives the token the expiry now + ttl for every
\* ttl the caller passes, a ttl of zero included, and the configured default
\* only when the caller passes no ttl; the subject of the input is carried
\* unchanged into the token.
C30_ExpiryAsPassed == [][C30_Step(0..MaxTtl)]_vars
\* the same for the ttls other than zero
C30_NonZero == [][C30_Step(1..MaxTtl)]_vars
C30_NonZeroWitness ==
    /\ issued.sub = "bob" /\ issued.delta = MaxTtl /\ held.sub = "bob"
    /\ held.exp > ExpClaim(clock)
====
